---- MODULE Spec2Model ----
(***************************************************************************)
(* A model of the in-memory academic-record store: the five collections    *)
(* of src/persistence.py (students, professors, subjects, classes,         *)
(* reviews) and the repository functions of src/modules that mutate them.  *)
(*                                                                         *)
(* Python lists are sequences; a dict is a record; every repository        *)
(* function is an operator from a database value to a result               *)
(* [db |-> the database afterwards, ret |-> the return code], so that the  *)
(* cascades (delete_student -> delete_review -> ...) compose exactly as    *)
(* the calls do in the source.  One action per public function applies the *)
(* operator to the global `database` and records the call in `last`.       *)
(***************************************************************************)
EXTENDS Integers, Sequences, FiniteSets, TLC

VARIABLES database, next_class_id, next_review_id, last, db_file, in_flight

vars == <<database, next_class_id, next_review_id, last, db_file, in_flight>>

(***************************************************************************)
(* Program constants.                                                      *)
(***************************************************************************)
SUCCESS == 0
ERROR == 1
\* Python's None, kept apart from every integer an input can be.
None == -99
MAX_LENGTH_NAME == 100
MAX_USERNAME_LENGTH == 200
MAX_TITLE_LENGTH == 100
MAX_COMMENT_LENGTH == 1000
MIN_PERIOD == 20001

WEEK_DAYS == {"MON", "TUE", "WED", "THU", "FRI", "SAT", "SUN"}

DEPT_LIST ==
  {"ADM", "DAU", "DAD", "BIO", "CIS", "COM", "LAW", "ECON", "EDU", "CIV",
   "ELE", "IND", "DEQM", "MEC", "PHILOS", "PHYS", "GEO", "HIS", "INF", "LIT",
   "MATH", "MED", "PSYCH", "CHEM", "SOC_SERV", "THEO", "IRI"}

categories_requiring_class ==
  {"PROF_GOOD", "PROF_BAD", "PROF_CRAZY", "CLASS_BORING", "CLASS_ROOM",
   "STUDENT_ANNOYING", "STUDENT_GENIUS", "STUDENT_DUMB", "STUDENT_PSYCHO",
   "STUDENT_FUNNY", "SUBJECT_DIFFICULT", "SUBJECT_EASY", "SUBJECT_IRRELEVANT",
   "SUBJECT_BORING", "SUBJECT_IMPOSSIBLE_TEST", "SUBJECT_EASY_TEST",
   "SUBJECT_MANY_PAPERS", "OTHER"}

REVIEW_CATEGORIES ==
  categories_requiring_class \cup
  {"GENERAL_TOPICS", "CANTEEN", "ROBBERY", "BIKE_PARKING", "GYMNASIUM",
   "SPOTTED", "PUC_URGENT", "DIRECTORIES_VILLAGE", "EVENTS", "PARKING_LOT",
   "BLUE_STANDS", "FOOD", "INTERNSHIP_OPPS", "JOB_OPPS", "RESEARCH_OPPS",
   "INFORMATICS_WEEK", "CAINF", "INF_DEPT", "UG_LAB", "DEV_SUGGESTION"}

(***************************************************************************)
(* Python list and string primitives.  A text is a sequence of one-        *)
(* character strings, so that len() and strip() are computed.              *)
(***************************************************************************)
Range(s) == {s[i] : i \in 1..Len(s)}

\* x in s
Contains(s, x) == \E i \in 1..Len(s) : s[i] = x

\* The index of the first element equal to x (0 when there is none).
IndexOf(s, x) ==
  IF Contains(s, x) THEN CHOOSE i \in 1..Len(s) : s[i] = x /\ \A j \in 1..(i - 1) : s[j] # x
  ELSE 0

\* The list without its i-th element.
DropAt(s, i) == [j \in 1..(Len(s) - 1) |-> IF j < i THEN s[j] ELSE s[j + 1]]

\* list.remove(x): the FIRST element equal to x goes; later ones stay.
ListRemove(s, x) == IF Contains(s, x) THEN DropAt(s, IndexOf(s, x)) ELSE s

\* str.strip() on a text.
RECURSIVE LStrip(_)
LStrip(t) == IF t # <<>> /\ Head(t) = " " THEN LStrip(Tail(t)) ELSE t

RECURSIVE RStrip(_)
RStrip(t) == IF t # <<>> /\ t[Len(t)] = " " THEN RStrip(SubSeq(t, 1, Len(t) - 1)) ELSE t

Strip(t) == RStrip(LStrip(t))

\* dict.get(key, default)
Get(d, key, default) == IF key \in DOMAIN d THEN d[key] ELSE default

\* temp_data = record.copy(); temp_data.update(new_data)
DictUpdate(record, new_data) ==
  [k \in DOMAIN record \cup DOMAIN new_data |->
     IF k \in DOMAIN new_data THEN new_data[k] ELSE record[k]]

\* An apply loop that would not skip the primary key.
ApplyEveryKey(record, new_data, pk) == DictUpdate(record, new_data)

\* for key, value in new_data.items(): if key != pk: record[key] = value
ApplyExceptPk(record, new_data, pk) ==
  [k \in DOMAIN record \cup (DOMAIN new_data \ {pk}) |->
     IF k \in DOMAIN new_data \ {pk} THEN new_data[k] ELSE record[k]]

\* str.lower() on a text, for the letters of the texts drawn here.
LowerChar(c) ==
  CASE c = "A" -> "a" [] c = "B" -> "b" [] c = "C" -> "c" [] c = "I" -> "i"
    [] c = "O" -> "o" [] c = "P" -> "p" [] c = "R" -> "r" [] c = "U" -> "u"
    [] OTHER -> c

Lower(t) == [i \in 1..Len(t) |-> LowerChar(t[i])]

\* needle in hay, for two texts.
IsSubstring(needle, hay) ==
  \E i \in 0..(Len(hay) - Len(needle)) : SubSeq(hay, i + 1, i + Len(needle)) = needle

\* isinstance(x, int) for the values an input can take here: an integer or None.
IsInt(x) == x # None

(***************************************************************************)
(* persistence.py                                                          *)
(***************************************************************************)
EmptyDatabase ==
  [students |-> <<>>, professors |-> <<>>, subjects |-> <<>>,
   classes |-> <<>>, reviews |-> <<>>]

\* DB_FILE on disk: whether it exists, and its content: <<>> for an empty
\* file, <<db>> for the JSON document of database db.  JSON keeps each kind
\* of value stored here (int, str, bool, None, list, dict with str keys), so
\* the document is held as the database it was dumped from.
NoFile == [exists |-> FALSE, content |-> <<>>]

\* json.dump(database, f)
save_db(db) == [exists |-> TRUE, content |-> <<db>>]

\* An initialisation that would keep the in-memory database when the file
\* holds a document.
initialize_db_memory_kept(db, file) ==
  IF ~file.exists THEN [db |-> db, file |-> save_db(db), ret |-> SUCCESS]
  ELSE [db |-> db, file |-> file, ret |-> SUCCESS]

\* Without a file the in-memory database is written out and kept; an empty
\* file is left alone and the in-memory database kept; otherwise
\* database.update(loaded_data) replaces the five collections.
initialize_db(db, file) ==
  IF ~file.exists THEN [db |-> db, file |-> save_db(db), ret |-> SUCCESS]
  ELSE IF file.content = <<>> THEN [db |-> db, file |-> file, ret |-> SUCCESS]
  ELSE [db |-> file.content[1], file |-> file, ret |-> SUCCESS]

\* The position in collection coll of the first record whose pk_field is
\* pk_value; 0 stands for the None the source returns.  The source hands out
\* the record itself and callers mutate it in place: here callers update
\* coll[i].
find_entity_by_pk(coll, pk_value, pk_field) ==
  IF \E i \in 1..Len(coll) : coll[i][pk_field] = pk_value
  THEN CHOOSE i \in 1..Len(coll) :
         /\ coll[i][pk_field] = pk_value
         /\ \A j \in 1..(i - 1) : coll[j][pk_field] # pk_value
  ELSE 0

Res(db, ret) == [db |-> db, ret |-> ret]

(***************************************************************************)
(* modules/subject.py                                                      *)
(***************************************************************************)
repo_retrieve_subject(db, code) == find_entity_by_pk(db.subjects, code, "code")

validate_subject(data) ==
  IF ~IsInt(Get(data, "code", None)) \/ data.code <= 0 THEN ERROR
  ELSE IF ~IsInt(Get(data, "credits", None)) \/ data.credits < 0 THEN ERROR
  ELSE IF \/ Strip(Get(data, "name", <<>>)) = <<>>
          \/ Len(Strip(data.name)) > MAX_LENGTH_NAME
  THEN ERROR
  ELSE SUCCESS

create_subject(db, data) ==
  IF validate_subject(data) # SUCCESS THEN Res(db, ERROR)
  ELSE IF repo_retrieve_subject(db, data.code) # 0 THEN Res(db, ERROR)
  ELSE Res([db EXCEPT !.subjects = Append(@, data)], SUCCESS)

\* A lookup that hands back the first stored subject whatever the code.
retrieve_subject_first(db, code) == IF db.subjects # <<>> THEN 1 ELSE 0

retrieve_subject(db, code) ==
  IF ~IsInt(code) \/ code <= 0 THEN 0 ELSE repo_retrieve_subject(db, code)

\* The record validated is new_data with the code put in, not new_data
\* merged onto the stored subject.
update_subject(db, code, new_data) ==
  LET i == repo_retrieve_subject(db, code)
  IN  IF i = 0 THEN Res(db, ERROR)
      ELSE IF validate_subject(DictUpdate(new_data, [code |-> code])) # SUCCESS
      THEN Res(db, ERROR)
      ELSE Res([db EXCEPT !.subjects[i] = ApplyExceptPk(@, new_data, "code")], SUCCESS)

(***************************************************************************)
(* modules/professor.py                                                    *)
(***************************************************************************)
\* An id generator that would count the records.
_generate_professor_id_by_count(db) == Len(db.professors) + 1

\* 1 + the largest id among the professor records (1 when there are none).
_generate_professor_id(db) ==
  LET ids == {db.professors[i].id : i \in 1..Len(db.professors)} \cup {0}
  IN  1 + CHOOSE m \in ids : \A x \in ids : x <= m

repo_retrieve_professor(db, prof_id) ==
  IF ~IsInt(prof_id) \/ prof_id <= 0 THEN 0
  ELSE find_entity_by_pk(db.professors, prof_id, "id")

validate_department(dept_acronym) == dept_acronym \in DEPT_LIST

validate_professor(data) ==
  IF \/ Strip(Get(data, "name", <<>>)) = <<>>
     \/ Len(Strip(data.name)) > MAX_LENGTH_NAME
  THEN ERROR
  ELSE IF ~validate_department(Get(data, "department", "")) THEN ERROR
  ELSE SUCCESS

create_professor(db, data) ==
  IF validate_professor(data) # SUCCESS THEN Res(db, ERROR)
  ELSE LET professor_record ==
             [id |-> _generate_professor_id(db), name |-> data.name,
              department |-> data.department, subjects |-> <<>>, reviews |-> <<>>]
       IN  Res([db EXCEPT !.professors = Append(@, professor_record)], SUCCESS)

retrieve_professor(db, prof_id) == repo_retrieve_professor(db, prof_id)

update_professor(db, prof_id, new_data) ==
  LET i == repo_retrieve_professor(db, prof_id)
  IN  IF i = 0 THEN Res(db, ERROR)
      ELSE IF validate_professor(DictUpdate(db.professors[i], new_data)) # SUCCESS
      THEN Res(db, ERROR)
      ELSE Res([db EXCEPT !.professors[i] = ApplyExceptPk(@, new_data, "id")], SUCCESS)

\* A delete that would pass over an absent professor in silence.
delete_professor_silent(db, prof_id) ==
  LET i == repo_retrieve_professor(db, prof_id)
  IN  IF i = 0 THEN Res(db, SUCCESS)
      ELSE Res([db EXCEPT !.professors = ListRemove(@, db.professors[i])], SUCCESS)

\* A delete that would also take the professor off every class.
delete_professor_cascading(db, prof_id) ==
  LET i == repo_retrieve_professor(db, prof_id)
  IN  IF i = 0 THEN Res(db, ERROR)
      ELSE Res([db EXCEPT !.professors = ListRemove(@, db.professors[i]),
                          !.classes = [c \in 1..Len(db.classes) |->
                             [db.classes[c] EXCEPT
                                !.professors_ids = ListRemove(@, prof_id)]]],
               SUCCESS)

\* No back-reference (classes, reviews) is touched.
delete_professor(db, prof_id) ==
  LET i == repo_retrieve_professor(db, prof_id)
  IN  IF i = 0 THEN Res(db, ERROR)
      ELSE Res([db EXCEPT !.professors = ListRemove(@, db.professors[i])], SUCCESS)

create_professor_subject(db, prof_id, subject_code) ==
  LET i == repo_retrieve_professor(db, prof_id)
  IN  IF i = 0 \/ subject_code <= 0 THEN Res(db, ERROR)
      ELSE IF Contains(db.professors[i].subjects, subject_code) THEN Res(db, ERROR)
      ELSE Res([db EXCEPT !.professors[i].subjects = Append(@, subject_code)], SUCCESS)

\* The loop of update_professor_subjects over one list: remove(old) takes
\* the first old out, append(new) adds new whether or not it is there.
RenameInList(subjects, old_code, new_code) ==
  IF Contains(subjects, old_code)
  THEN Append(ListRemove(subjects, old_code), new_code)
  ELSE subjects

update_professor_subjects(db, old_code, new_code) ==
  IF ~IsInt(old_code) \/ old_code <= 0 \/ ~IsInt(new_code) \/ new_code <= 0
  THEN Res(db, ERROR)
  ELSE LET profs == [i \in 1..Len(db.professors) |->
                       [db.professors[i] EXCEPT
                          !.subjects = RenameInList(@, old_code, new_code)]]
           updated_count ==
             Cardinality({i \in 1..Len(db.professors) :
                            Contains(db.professors[i].subjects, old_code)})
           still == \E i \in 1..Len(profs) : Contains(profs[i].subjects, old_code)
       IN  IF updated_count = 0 /\ ~still THEN Res(db, ERROR)
           ELSE Res([db EXCEPT !.professors = profs], SUCCESS)

create_professor_review(db, prof_id, review_id) ==
  LET i == repo_retrieve_professor(db, prof_id)
  IN  IF i = 0 \/ ~IsInt(review_id) \/ review_id <= 0 THEN Res(db, ERROR)
      ELSE IF Contains(db.professors[i].reviews, review_id) THEN Res(db, ERROR)
      ELSE Res([db EXCEPT !.professors[i].reviews = Append(@, review_id)], SUCCESS)

remove_review_reference_from_professor(db, prof_id, review_id) ==
  LET i == repo_retrieve_professor(db, prof_id)
  IN  IF i = 0 \/ review_id <= 0 THEN Res(db, ERROR)
      ELSE IF Contains(db.professors[i].reviews, review_id)
      THEN Res([db EXCEPT !.professors[i].reviews = ListRemove(@, review_id)], SUCCESS)
      ELSE Res(db, ERROR)

remove_subject_reference_from_all_professors(db, subject_code) ==
  IF ~IsInt(subject_code) \/ subject_code <= 0 THEN Res(db, ERROR)
  ELSE Res([db EXCEPT !.professors =
              [i \in 1..Len(db.professors) |->
                 [db.professors[i] EXCEPT !.subjects = ListRemove(@, subject_code)]]],
           SUCCESS)

(***************************************************************************)
(* domains/course.py                                                       *)
(***************************************************************************)
COURSE_LIST ==
  {"ADM", "ARQ_URB", "ART_CEN", "CIEN_ECON", "CIEN_SOCIOL", "CIEN_COMP",
   "COM_SOC", "DSGN", "LAW", "ENG_AMB", "ENG_CIV", "ENG_COMP", "ENG_CONTRLAUT",
   "ENG_ELETR", "ENG_IND", "ENG_MEC", "ENG_MAT", "ENG_PROD", "ENG_QUIM",
   "PUBLI_COM", "CINEM", "COMUNIC_TEC", "PHARM", "PHILOS", "PHYS", "GEO",
   "HIST", "AI", "JOURN", "LIT", "MATH", "APP_MATH", "IR", "NEURO", "NUTR",
   "PEDAG", "PSYCH", "CHEM", "SOC_SERV"}

validate_course(course_acronym) == course_acronym \in COURSE_LIST

(***************************************************************************)
(* modules/student.py (the functions that call no other module)            *)
(***************************************************************************)
repo_retrieve_student(db, enrollment) ==
  IF ~IsInt(enrollment) \/ enrollment <= 0 THEN 0
  ELSE find_entity_by_pk(db.students, enrollment, "enrollment")

student_required_fields ==
  {"enrollment", "username", "password", "name", "institutional_email", "course"}

validate_student(data) ==
  IF ~(student_required_fields \subseteq DOMAIN data) THEN ERROR
  ELSE IF ~IsInt(data.enrollment) \/ data.enrollment <= 0 THEN ERROR
  ELSE IF Strip(data.username) = <<>> \/ Len(Strip(data.username)) > MAX_USERNAME_LENGTH
  THEN ERROR
  ELSE IF Strip(data.name) = <<>> \/ Len(Strip(data.name)) > MAX_LENGTH_NAME THEN ERROR
  ELSE IF ~validate_course(data.course) THEN ERROR
  ELSE SUCCESS

create_student(db, data) ==
  IF validate_student(data) # SUCCESS THEN Res(db, ERROR)
  ELSE IF repo_retrieve_student(db, data.enrollment) # 0 THEN Res(db, ERROR)
  ELSE Res([db EXCEPT !.students = Append(@,
              [enrollment |-> data.enrollment, username |-> data.username,
               password |-> data.password, name |-> data.name,
               institutional_email |-> data.institutional_email,
               course |-> data.course, subjects |-> <<>>, reviews |-> <<>>,
               profile_private |-> TRUE])],
           SUCCESS)

retrieve_student(db, enrollment) ==
  IF ~IsInt(enrollment) \/ enrollment <= 0 THEN 0
  ELSE repo_retrieve_student(db, enrollment)

update_student_course(db, enrollment, new_course) ==
  LET i == repo_retrieve_student(db, enrollment)
  IN  IF i = 0 THEN Res(db, ERROR)
      ELSE IF ~validate_course(new_course) THEN Res(db, ERROR)
      ELSE Res([db EXCEPT !.students[i].course = new_course], SUCCESS)

update_student(db, enrollment, new_data) ==
  LET i == repo_retrieve_student(db, enrollment)
  IN  IF i = 0 THEN Res(db, ERROR)
      ELSE IF validate_student(DictUpdate(db.students[i], new_data)) # SUCCESS
      THEN Res(db, ERROR)
      ELSE Res([db EXCEPT !.students[i] = ApplyExceptPk(@, new_data, "enrollment")],
               SUCCESS)

\* student.py's own repo_retrieve_subject, through find_entity_by_pk.
student_repo_retrieve_subject(db, code) ==
  IF ~IsInt(code) \/ code <= 0 THEN 0
  ELSE find_entity_by_pk(db.subjects, code, "code")

create_student_subject(db, enrollment, subject_code) ==
  LET i == repo_retrieve_student(db, enrollment)
  IN  IF i = 0 THEN Res(db, ERROR)
      ELSE IF student_repo_retrieve_subject(db, subject_code) = 0 THEN Res(db, ERROR)
      ELSE IF Contains(db.students[i].subjects, subject_code) THEN Res(db, ERROR)
      ELSE Res([db EXCEPT !.students[i].subjects = Append(@, subject_code)], SUCCESS)

update_student_subjects(db, old_code, new_code) ==
  IF ~IsInt(old_code) \/ old_code <= 0 \/ ~IsInt(new_code) \/ new_code <= 0
  THEN Res(db, ERROR)
  ELSE LET studs == [i \in 1..Len(db.students) |->
                       [db.students[i] EXCEPT
                          !.subjects = RenameInList(@, old_code, new_code)]]
           updated_count ==
             Cardinality({i \in 1..Len(db.students) :
                            Contains(db.students[i].subjects, old_code)})
           still == \E i \in 1..Len(studs) : Contains(studs[i].subjects, old_code)
       IN  IF updated_count = 0 /\ ~still THEN Res(db, ERROR)
           ELSE Res([db EXCEPT !.students = studs], SUCCESS)

delete_student_subject(db, enrollment, subject_code) ==
  LET i == repo_retrieve_student(db, enrollment)
  IN  IF i = 0 \/ subject_code <= 0 THEN Res(db, ERROR)
      ELSE IF ~Contains(db.students[i].subjects, subject_code) THEN Res(db, ERROR)
      ELSE Res([db EXCEPT !.students[i].subjects = ListRemove(@, subject_code)], SUCCESS)

create_student_review(db, enrollment, review_id) ==
  LET i == repo_retrieve_student(db, enrollment)
  IN  IF i = 0 \/ ~IsInt(review_id) \/ review_id <= 0 THEN Res(db, ERROR)
      ELSE IF Contains(db.students[i].reviews, review_id) THEN Res(db, ERROR)
      ELSE Res([db EXCEPT !.students[i].reviews = Append(@, review_id)], SUCCESS)

delete_student_review(db, enrollment, review_id) ==
  LET i == repo_retrieve_student(db, enrollment)
  IN  IF i = 0 \/ review_id <= 0 THEN Res(db, ERROR)
      ELSE IF ~Contains(db.students[i].reviews, review_id) THEN Res(db, ERROR)
      ELSE Res([db EXCEPT !.students[i].reviews = ListRemove(@, review_id)], SUCCESS)

remove_subject_reference_from_all_students(db, subject_code) ==
  IF ~IsInt(subject_code) \/ subject_code <= 0 THEN Res(db, ERROR)
  ELSE Res([db EXCEPT !.students =
              [i \in 1..Len(db.students) |->
                 [db.students[i] EXCEPT !.subjects = ListRemove(@, subject_code)]]],
           SUCCESS)

(***************************************************************************)
(* modules/credentialing.py                                                *)
(***************************************************************************)
PucDomain == <<"@", "p", "u", "c", "-", "r", "i", "o", ".", "b", "r">>

_validate_institutional_link(enrollment, email) ==
  IF ~IsInt(enrollment) \/ enrollment <= 0 THEN FALSE
  ELSE IF ~IsSubstring(PucDomain, Lower(email)) \/ email = <<>> THEN FALSE
  ELSE TRUE

\* The username is compared as given, not stripped.
register_student_account(db, student_data) ==
  IF validate_student(student_data) # SUCCESS THEN Res(db, ERROR)
  ELSE IF ~_validate_institutional_link(student_data.enrollment,
                                        student_data.institutional_email)
  THEN Res(db, ERROR)
  ELSE IF \E i \in 1..Len(db.students) : db.students[i].username = student_data.username
  THEN Res(db, ERROR)
  ELSE create_student(db, student_data)

\* The student record at position i (0 stands for ERROR, the int returned
\* when the login fails).
\* A login that looks the account up and never compares the password.
authenticate_user_any_password(db, enrollment, password) == retrieve_student(db, enrollment)

authenticate_user(db, enrollment, password) ==
  LET i == retrieve_student(db, enrollment)
  IN  IF i = 0 THEN 0
      ELSE IF db.students[i].password = password THEN i
      ELSE 0

(***************************************************************************)
(* modules/classes.py                                                      *)
(***************************************************************************)
\* dict.copy() followed by dict.update(new_data): new_data's keys win.
repo_retrieve_class(db, code) ==
  IF ~IsInt(code) \/ code <= 0 THEN 0
  ELSE find_entity_by_pk(db.classes, code, "code")

_validate_period(period) ==
  IF ~IsInt(period) \/ period < MIN_PERIOD THEN FALSE
  ELSE (period % 10) \in {1, 2}

_validate_schedule(horarios) ==
  /\ horarios # <<>>
  /\ \A i \in 1..Len(horarios) :
       /\ horarios[i].day \in WEEK_DAYS
       /\ IsInt(horarios[i].start_time) /\ IsInt(horarios[i].end_time)
       /\ ~(horarios[i].start_time < 0) /\ ~(horarios[i].end_time > 24)
       /\ ~(horarios[i].start_time >= horarios[i].end_time)

class_required_fields ==
  {"subject_code", "professors_ids", "period", "schedule", "students_enrollments"}

\* A validation that would not look the professors up.
validate_class_professors_unchecked(db, data) ==
  IF ~(class_required_fields \subseteq DOMAIN data) THEN ERROR
  ELSE IF ~_validate_period(data.period) THEN ERROR
  ELSE IF ~_validate_schedule(data.schedule) THEN ERROR
  ELSE IF retrieve_subject(db, data.subject_code) = 0 THEN ERROR
  ELSE IF data.professors_ids = <<>> THEN ERROR
  ELSE SUCCESS

\* The enrollments in students_enrollments are not looked up: the list only
\* has to be present.
validate_class(db, data) ==
  IF ~(class_required_fields \subseteq DOMAIN data) THEN ERROR
  ELSE IF ~_validate_period(data.period) THEN ERROR
  ELSE IF ~_validate_schedule(data.schedule) THEN ERROR
  ELSE IF retrieve_subject(db, data.subject_code) = 0 THEN ERROR
  ELSE IF data.professors_ids = <<>> THEN ERROR
  ELSE IF \E i \in 1..Len(data.professors_ids) :
            retrieve_professor(db, data.professors_ids[i]) = 0
  THEN ERROR
  ELSE SUCCESS

\* A comparison of the two lists that would depend on their order.
SameProfessorList(a, b) == a = b

\* set(class_record['professors_ids']) == set(data['professors_ids'])
SameProfessorSet(a, b) == Range(a) = Range(b)

exists_class(db, data) ==
  IF ~({"subject_code", "period", "professors_ids"} \subseteq DOMAIN data) THEN ERROR
  ELSE IF \E i \in 1..Len(db.classes) :
            /\ db.classes[i].subject_code = data.subject_code
            /\ db.classes[i].period = data.period
            /\ SameProfessorSet(db.classes[i].professors_ids, data.professors_ids)
  THEN SUCCESS
  ELSE ERROR

\* The result carries the class-id counter: _generate_class_id runs only
\* after validation and the duplicate check have passed.
create_class(db, next_id, data) ==
  IF validate_class(db, data) # SUCCESS THEN [db |-> db, ret |-> ERROR, next |-> next_id]
  ELSE IF exists_class(db, data) = SUCCESS THEN [db |-> db, ret |-> ERROR, next |-> next_id]
  ELSE LET class_record ==
             [code |-> next_id, subject_code |-> data.subject_code,
              period |-> data.period, schedule |-> data.schedule,
              professors_ids |-> data.professors_ids,
              students_enrollments |-> data.students_enrollments,
              reviews_ids |-> <<>>]
       IN  [db |-> [db EXCEPT !.classes = Append(@, class_record)],
            ret |-> SUCCESS, next |-> next_id + 1]

retrieve_class(db, code) ==
  IF ~IsInt(code) \/ code <= 0 THEN 0 ELSE repo_retrieve_class(db, code)

\* No uniqueness check (exists_class) is made on the merged record.
\* An update that would write the fields before validating the result.
update_class_written_first(db, code, new_data) ==
  LET i == repo_retrieve_class(db, code)
  IN  IF i = 0 THEN Res(db, ERROR)
      ELSE Res([db EXCEPT !.classes[i] = ApplyExceptPk(@, new_data, "code")],
               validate_class(db, DictUpdate(db.classes[i], new_data)))

update_class(db, code, new_data) ==
  LET i == repo_retrieve_class(db, code)
  IN  IF i = 0 THEN Res(db, ERROR)
      ELSE IF validate_class(db, DictUpdate(db.classes[i], new_data)) # SUCCESS
      THEN Res(db, ERROR)
      ELSE Res([db EXCEPT !.classes[i] = ApplyExceptPk(@, new_data, "code")], SUCCESS)

repo_delete_class(db, code) ==
  LET i == repo_retrieve_class(db, code)
  IN  IF i = 0 THEN Res(db, ERROR)
      ELSE Res([db EXCEPT !.classes = ListRemove(@, db.classes[i])], SUCCESS)

\* The reviews that target the class are left as they are.
delete_class(db, code) ==
  IF ~IsInt(code) \/ code <= 0 THEN Res(db, ERROR) ELSE repo_delete_class(db, code)

\* An association that would not look for the id in the list first.
associate_review_unchecked(db, class_code, review_id) ==
  LET i == repo_retrieve_class(db, class_code)
  IN  IF i = 0 \/ review_id <= 0 THEN Res(db, ERROR)
      ELSE Res([db EXCEPT !.classes[i].reviews_ids = Append(@, review_id)], SUCCESS)

associate_review_to_class(db, class_code, review_id) ==
  LET i == repo_retrieve_class(db, class_code)
  IN  IF i = 0 \/ review_id <= 0 THEN Res(db, ERROR)
      ELSE IF Contains(db.classes[i].reviews_ids, review_id) THEN Res(db, ERROR)
      ELSE Res([db EXCEPT !.classes[i].reviews_ids = Append(@, review_id)], SUCCESS)

delete_student_reference_from_all_classes(db, enrollment) ==
  IF ~IsInt(enrollment) \/ enrollment <= 0 THEN Res(db, ERROR)
  ELSE Res([db EXCEPT !.classes =
              [i \in 1..Len(db.classes) |->
                 [db.classes[i] EXCEPT !.students_enrollments = ListRemove(@, enrollment)]]],
           SUCCESS)

delete_classes_by_subject(db, subject_code) ==
  IF ~IsInt(subject_code) \/ subject_code <= 0 THEN Res(db, ERROR)
  ELSE LET keep(c) == c.subject_code # subject_code
       IN  Res([db EXCEPT !.classes = SelectSeq(@, keep)], SUCCESS)

remove_review_reference_from_class(db, class_code, review_id) ==
  LET i == repo_retrieve_class(db, class_code)
  IN  IF i = 0 \/ review_id <= 0 THEN Res(db, ERROR)
      ELSE IF Contains(db.classes[i].reviews_ids, review_id)
      THEN Res([db EXCEPT !.classes[i].reviews_ids = ListRemove(@, review_id)], SUCCESS)
      ELSE Res(db, ERROR)

(***************************************************************************)
(* modules/review.py                                                       *)
(***************************************************************************)
repo_retrieve_review(db, review_id) ==
  IF ~IsInt(review_id) \/ review_id <= 0 THEN 0
  ELSE find_entity_by_pk(db.reviews, review_id, "id_aval")

(***************************************************************************)
(* calculate_review_average_professor.  A float is held in tenths: -10 is  *)
(* the -1.0 of the source, 42 is 4.2.                                      *)
(***************************************************************************)
\* total_stars / count is the IEEE-754 double nearest to the quotient.  When
\* the quotient is halfway between n and n + 1 tenths, (2n + 1)/20, the
\* double is that value itself only for the quarters (2n + 1 a multiple of
\* 5); for these n of 0..49 the nearest double lies below the halfway point,
\* for the remaining ones above it.
DoubleBelowHalfway ==
  {1, 3, 8, 9, 11, 14, 16, 19, 20, 21, 25, 26, 30, 31, 35, 36, 40, 43, 45, 48}

\* round(total_stars / count, 1): the tenth nearest to the double, and the
\* even tenth when the double is exactly halfway.
RoundQuotient(total_stars, count) ==
  LET n == (10 * total_stars) \div count
      rest == (10 * total_stars) % count
  IN  IF 2 * rest < count THEN n
      ELSE IF 2 * rest > count THEN n + 1
      ELSE IF (2 * n + 1) % 5 = 0 THEN (IF n % 2 = 0 THEN n ELSE n + 1)
      ELSE IF n \in DoubleBelowHalfway THEN n
      ELSE n + 1

\* The loop over review_ids: [total_stars, count] of the listed reviews that
\* are found and carry stars.
RECURSIVE TallyStars(_, _)
TallyStars(db, review_ids) ==
  IF review_ids = <<>> THEN [total_stars |-> 0, count |-> 0]
  ELSE LET rest == TallyStars(db, Tail(review_ids))
           i == find_entity_by_pk(db.reviews, Head(review_ids), "id_aval")
       IN  IF i # 0 /\ Get(db.reviews[i], "stars", None) # None
           THEN [total_stars |-> rest.total_stars + db.reviews[i].stars,
                 count |-> rest.count + 1]
           ELSE rest

calculate_review_average_professor(db, prof_id) ==
  LET i == repo_retrieve_professor(db, prof_id)
  IN  IF i = 0 THEN -10
      ELSE IF db.professors[i].reviews = <<>> THEN 0
      ELSE LET t == TallyStars(db, db.professors[i].reviews)
           IN  IF t.count = 0 THEN 0
               ELSE RoundQuotient(t.total_stars, t.count)

\* A category check that would ask no category for a class.
validate_review_category_tag_only(category_key, class_code) ==
  category_key \in REVIEW_CATEGORIES

validate_review_category(category_key, class_code) ==
  IF category_key \notin REVIEW_CATEGORIES THEN FALSE
  ELSE IF category_key \in categories_requiring_class /\ class_code = None THEN FALSE
  ELSE TRUE

review_required_fields ==
  {"student_enrollment", "title", "comment", "date_time", "category", "is_anonymous"}

\* date_time is a string in every input drawn here, so its isinstance check
\* passes.  stars and class_target_code are read with data.get: a missing key
\* and a None value are the same to the validation.
validate_review(db, data) ==
  LET stars == Get(data, "stars", None)
      class_code == Get(data, "class_target_code", None)
  IN  IF ~(review_required_fields \subseteq DOMAIN data) THEN ERROR
      ELSE IF find_entity_by_pk(db.students, data.student_enrollment, "enrollment") = 0
      THEN ERROR
      ELSE IF data.title = <<>> \/ Len(data.title) > MAX_TITLE_LENGTH THEN ERROR
      ELSE IF data.comment = <<>> \/ Len(data.comment) > MAX_COMMENT_LENGTH THEN ERROR
      ELSE IF stars # None /\ (stars < 0 \/ stars > 5) THEN ERROR
      ELSE IF ~validate_review_category(data.category, class_code) THEN ERROR
      ELSE IF /\ class_code # None
              /\ \/ class_code <= 0
                 \/ find_entity_by_pk(db.classes, class_code, "code") = 0
      THEN ERROR
      ELSE IF data.is_anonymous \notin BOOLEAN THEN ERROR
      ELSE SUCCESS

\* A fan-out that would stop after the first professor of the class.
\* A fan-out that undoes the creation when a listed professor has no record:
\* the review record is dropped again.
FanOutOrRollBack(db, prof_ids, review_id) ==
  IF \E k \in DOMAIN prof_ids : repo_retrieve_professor(db, prof_ids[k]) = 0
  THEN [db EXCEPT !.reviews = SelectSeq(@, LAMBDA rv : rv.id_aval # review_id)]
  ELSE IF prof_ids = <<>> THEN db
  ELSE create_professor_review(db, Head(prof_ids), review_id).db

FanOutToFirstProfessor(db, prof_ids, review_id) ==
  IF prof_ids = <<>> THEN db
  ELSE create_professor_review(db, Head(prof_ids), review_id).db

\* for prof_id in class_record['professors_ids']: create_professor_review(...)
\* Each call's return code is dropped by the caller.
RECURSIVE FanOutToProfessors(_, _, _)
FanOutToProfessors(db, prof_ids, review_id) ==
  IF prof_ids = <<>> THEN db
  ELSE FanOutToProfessors(create_professor_review(db, Head(prof_ids), review_id).db,
                          Tail(prof_ids), review_id)

\* now: the creation time stamped over the caller's date_time.
create_review(db, next_id, data, now) ==
  IF validate_review(db, data) # SUCCESS THEN [db |-> db, ret |-> ERROR, next |-> next_id]
  ELSE
    LET new_id == next_id
        review_record ==
          [id_aval |-> new_id, student_enrollment |-> data.student_enrollment,
           date_time |-> now, title |-> data.title, comment |-> data.comment,
           category |-> data.category, is_anonymous |-> data.is_anonymous,
           stars |-> data.stars, class_target_code |-> data.class_target_code,
           mentions |-> data.mentions]
        db1 == [db EXCEPT !.reviews = Append(@, review_record)]
        db2 == create_student_review(db1, review_record.student_enrollment, new_id).db
        class_code == review_record.class_target_code
        ci == IF class_code = None THEN 0
              ELSE find_entity_by_pk(db2.classes, class_code, "code")
        db3 == IF ci = 0 THEN db2
               ELSE FanOutToProfessors(
                      associate_review_to_class(db2, class_code, new_id).db,
                      db2.classes[ci].professors_ids, new_id)
    IN  [db |-> db3, ret |-> SUCCESS, next |-> next_id + 1]

retrieve_review(db, review_id) ==
  IF ~IsInt(review_id) \/ review_id <= 0 THEN 0 ELSE repo_retrieve_review(db, review_id)

\* The merged record is validated and the fields are written; no list of
\* any student, class or professor is touched.
update_review(db, review_id, new_data) ==
  LET i == repo_retrieve_review(db, review_id)
  IN  IF i = 0 THEN Res(db, ERROR)
      ELSE IF validate_review(db, DictUpdate(db.reviews[i], new_data)) # SUCCESS
      THEN Res(db, ERROR)
      ELSE Res([db EXCEPT !.reviews[i] = ApplyExceptPk(@, new_data, "id_aval")], SUCCESS)

RECURSIVE UnlinkFromProfessors(_, _, _)
UnlinkFromProfessors(db, prof_ids, review_id) ==
  IF prof_ids = <<>> THEN db
  ELSE UnlinkFromProfessors(
         remove_review_reference_from_professor(db, Head(prof_ids), review_id).db,
         Tail(prof_ids), review_id)

\* The author, the class and the professors are those the review record and
\* the class record name NOW, not those the id was fanned out to.
delete_review(db, review_id) ==
  LET i == repo_retrieve_review(db, review_id)
  IN  IF i = 0 THEN Res(db, ERROR)
      ELSE
        LET review_record == db.reviews[i]
            db1 == delete_student_review(db, review_record.student_enrollment, review_id).db
            class_code == review_record.class_target_code
            db2 == IF class_code = None THEN db1
                   ELSE remove_review_reference_from_class(db1, class_code, review_id).db
            ci == IF class_code = None THEN 0
                  ELSE find_entity_by_pk(db2.classes, class_code, "code")
            db3 == IF ci = 0 THEN db2
                   ELSE UnlinkFromProfessors(db2, db2.classes[ci].professors_ids, review_id)
        IN  Res([db3 EXCEPT !.reviews = ListRemove(@, review_record)], SUCCESS)

(***************************************************************************)
(* The cascading deletes of student.py and subject.py.                     *)
(***************************************************************************)
RECURSIVE DeleteReviews(_, _)
DeleteReviews(db, review_ids) ==
  IF review_ids = <<>> THEN db
  ELSE DeleteReviews(delete_review(db, Head(review_ids)).db, Tail(review_ids))

\* The reviews deleted are those of the student's own reviews list.  The
\* student dict is found once and mutated in place by the cascade, so the
\* record removed at the end is the one at the same position.
delete_student(db, enrollment) ==
  LET i == repo_retrieve_student(db, enrollment)
  IN  IF i = 0 THEN Res(db, ERROR)
      ELSE
        LET db1 == DeleteReviews(db, db.students[i].reviews)
            db2 == delete_student_reference_from_all_classes(db1, enrollment).db
        IN  Res([db2 EXCEPT !.students = ListRemove(@, db2.students[i])], SUCCESS)

delete_subject(db, code) ==
  IF ~IsInt(code) \/ code <= 0 THEN Res(db, ERROR)
  ELSE
    LET i == repo_retrieve_subject(db, code)
    IN  IF i = 0 THEN Res(db, ERROR)
        ELSE
          LET db1 == delete_classes_by_subject(db, code).db
              db2 == remove_subject_reference_from_all_students(db1, code).db
              db3 == remove_subject_reference_from_all_professors(db2, code).db
          IN  Res([db3 EXCEPT !.subjects = ListRemove(@, db3.subjects[i])], SUCCESS)

(***************************************************************************)
(* Bounds of the model and the inputs the actions draw.                    *)
(***************************************************************************)
\* Professor ids are issued up to this one.
MaxProfessors == 2
\* Professor ids are issued up to this one where ids above a gap matter.
MaxProfessorId == 3
\* At most this many class codes are ever issued.
MaxClasses == 2
\* At most this many review ids are ever issued.
MaxReviews == 2

\* A subjects list is not extended beyond this length.
MaxSubjectsListed == 2

SubjectInput(code) ==
  [code |-> code, credits |-> 4, name |-> <<"S">>, description |-> <<"d">>]

ProfessorInput(dept) == [name |-> <<"A">>, department |-> dept]

StudentInput(enrollment) ==
  [enrollment |-> enrollment, username |-> <<"u", ToString(enrollment)>>,
   password |-> <<"p">>, name |-> <<"N">>,
   institutional_email |-> <<"a">> \o PucDomain, course |-> "CIEN_COMP"]

MondaySchedule == <<[day |-> "MON", start_time |-> 9, end_time |-> 11]>>

ClassInput(subject_code, period, professors_ids, students_enrollments) ==
  [subject_code |-> subject_code, professors_ids |-> professors_ids,
   period |-> period, schedule |-> MondaySchedule,
   students_enrollments |-> students_enrollments]

ReviewInput(enrollment, category, class_code, stars) ==
  [student_enrollment |-> enrollment, title |-> <<"T">>, comment |-> <<"C">>,
   date_time |-> "2024-01-01T00:00:00", category |-> category,
   is_anonymous |-> FALSE, stars |-> stars, class_target_code |-> class_code,
   mentions |-> <<>>]

\* The one instant datetime.now() returns in these runs.
Now == "2024-06-01T12:00:00"

\* The call that produced the current state: the function, its key argument
\* (or the id a create assigned), its data argument and its return code.
Call(op, key, data, ret) == [op |-> op, key |-> key, data |-> data, ret |-> ret]

(***************************************************************************)
(* The state after the modules are imported: persistence.py's empty        *)
(* database, next_class_id = 1 and next_review_id = 1.                     *)
(***************************************************************************)
\* create_professor calls between the computation of their id and the append
\* of their record, one per thread; interleaved once two calls overlapped.
Threads == {1, 2}

Idle == [pc |-> "idle", new_id |-> 0, data |-> [name |-> <<>>], stale |-> FALSE]

NoCalls == [calls |-> [t \in Threads |-> Idle], interleaved |-> FALSE]

Init ==
  /\ database = EmptyDatabase
  /\ next_class_id = 1
  /\ next_review_id = 1
  /\ last = Call("import", 0, <<>>, SUCCESS)
  /\ db_file = NoFile
  /\ in_flight = NoCalls

(***************************************************************************)
(* One action per public function.                                         *)
(***************************************************************************)
CreateSubject(data) ==
  LET r == create_subject(database, data)
  IN  /\ database' = r.db
      /\ last' = Call("create_subject", data.code, data, r.ret)
      /\ UNCHANGED <<in_flight, next_class_id, next_review_id, db_file>>

DeleteSubject(code) ==
  LET r == delete_subject(database, code)
  IN  /\ database' = r.db
      /\ last' = Call("delete_subject", code, <<>>, r.ret)
      /\ UNCHANGED <<in_flight, next_class_id, next_review_id, db_file>>

UpdateSubject(code, new_data) ==
  LET r == update_subject(database, code, new_data)
  IN  /\ database' = r.db
      /\ last' = Call("update_subject", code, new_data, r.ret)
      /\ UNCHANGED <<in_flight, next_class_id, next_review_id, db_file>>

UpdateProfessor(prof_id, new_data) ==
  LET r == update_professor(database, prof_id, new_data)
  IN  /\ database' = r.db
      /\ last' = Call("update_professor", prof_id, new_data, r.ret)
      /\ UNCHANGED <<in_flight, next_class_id, next_review_id, db_file>>

UpdateStudentCourse(enrollment, new_course) ==
  LET r == update_student_course(database, enrollment, new_course)
  IN  /\ database' = r.db
      /\ last' = Call("update_student_course", enrollment, [course |-> new_course], r.ret)
      /\ UNCHANGED <<in_flight, next_class_id, next_review_id, db_file>>

UpdateStudent(enrollment, new_data) ==
  LET r == update_student(database, enrollment, new_data)
  IN  /\ database' = r.db
      /\ last' = Call("update_student", enrollment, new_data, r.ret)
      /\ UNCHANGED <<in_flight, next_class_id, next_review_id, db_file>>

\* create_professor while the id it would issue is at most max_id.
CreateProfessorUpTo(max_id, data) ==
  /\ _generate_professor_id(database) <= max_id
  /\ LET r == create_professor(database, data)
     IN  /\ database' = r.db
         /\ last' = Call("create_professor",
                         IF r.ret = SUCCESS THEN _generate_professor_id(database) ELSE 0,
                         data, r.ret)
         /\ UNCHANGED <<in_flight, next_class_id, next_review_id, db_file>>

\* create_professor run by thread t up to new_id = _generate_professor_id():
\* refused data returns ERROR at once; otherwise the id is computed from the
\* records stored now and held by the call.
ProfessorIdComputed(t, data) ==
  /\ in_flight.calls[t].pc = "idle"
  /\ _generate_professor_id(database) <= MaxProfessorId
  /\ IF validate_professor(data) # SUCCESS
     THEN /\ last' = Call("create_professor", 0, data, ERROR)
          /\ UNCHANGED in_flight
     ELSE /\ in_flight' =
               [calls |-> [in_flight.calls EXCEPT
                             ![t] = [pc |-> "generated",
                                     new_id |-> _generate_professor_id(database),
                                     data |-> data, stale |-> FALSE]],
                interleaved |-> \/ in_flight.interleaved
                                \/ \E u \in Threads \ {t} :
                                     in_flight.calls[u].pc = "generated"]
          /\ last' = Call("_generate_professor_id", 0, data,
                          _generate_professor_id(database))
  /\ UNCHANGED <<database, next_class_id, next_review_id, db_file>>

\* A call that computes its id again when it appends.
ProfessorRecordAppendedFresh(t) ==
  /\ in_flight.calls[t].pc = "generated"
  /\ database' = create_professor(database, in_flight.calls[t].data).db
  /\ in_flight' = [in_flight EXCEPT !.calls[t] = Idle]
  /\ last' = Call("create_professor", _generate_professor_id(database),
                  in_flight.calls[t].data, SUCCESS)
  /\ UNCHANGED <<next_class_id, next_review_id, db_file>>

\* The rest of the call of thread t: the record with the id held is appended.
\* The ids held by the other calls were computed without this record.
ProfessorRecordAppended(t) ==
  /\ in_flight.calls[t].pc = "generated"
  /\ LET c == in_flight.calls[t]
         professor_record ==
           [id |-> c.new_id, name |-> c.data.name, department |-> c.data.department,
            subjects |-> <<>>, reviews |-> <<>>]
     IN  /\ database' = [database EXCEPT !.professors = Append(@, professor_record)]
         /\ last' = Call("create_professor", c.new_id, c.data, SUCCESS)
  /\ in_flight' =
       [in_flight EXCEPT
          !.calls = [u \in Threads |->
                       IF u = t THEN Idle
                       ELSE IF in_flight.calls[u].pc = "generated"
                       THEN [in_flight.calls[u] EXCEPT !.stale = TRUE]
                       ELSE in_flight.calls[u]]]
  /\ UNCHANGED <<next_class_id, next_review_id, db_file>>

CreateProfessor(data) == CreateProfessorUpTo(MaxProfessors, data)

DeleteProfessor(prof_id) ==
  LET r == delete_professor(database, prof_id)
  IN  /\ database' = r.db
      /\ last' = Call("delete_professor", prof_id, <<>>, r.ret)
      /\ UNCHANGED <<in_flight, next_class_id, next_review_id, db_file>>

CreateProfessorSubject(prof_id, subject_code) ==
  /\ \A pr \in Range(database.professors) : Len(pr.subjects) < MaxSubjectsListed
  /\ LET r == create_professor_subject(database, prof_id, subject_code)
     IN  /\ database' = r.db
         /\ last' = Call("create_professor_subject", prof_id, <<subject_code>>, r.ret)
         /\ UNCHANGED <<in_flight, next_class_id, next_review_id, db_file>>

UpdateProfessorSubjects(old_code, new_code) ==
  LET r == update_professor_subjects(database, old_code, new_code)
  IN  /\ database' = r.db
      /\ last' = Call("update_professor_subjects", old_code, <<new_code>>, r.ret)
      /\ UNCHANGED <<in_flight, next_class_id, next_review_id, db_file>>

CreateStudent(data) ==
  LET r == create_student(database, data)
  IN  /\ database' = r.db
      /\ last' = Call("create_student", data.enrollment, data, r.ret)
      /\ UNCHANGED <<in_flight, next_class_id, next_review_id, db_file>>

DeleteStudent(enrollment) ==
  LET r == delete_student(database, enrollment)
  IN  /\ database' = r.db
      /\ last' = Call("delete_student", enrollment, <<>>, r.ret)
      /\ UNCHANGED <<in_flight, next_class_id, next_review_id, db_file>>

CreateStudentSubject(enrollment, subject_code) ==
  /\ \A st \in Range(database.students) : Len(st.subjects) < MaxSubjectsListed
  /\ LET r == create_student_subject(database, enrollment, subject_code)
     IN  /\ database' = r.db
         /\ last' = Call("create_student_subject", enrollment, <<subject_code>>, r.ret)
         /\ UNCHANGED <<in_flight, next_class_id, next_review_id, db_file>>

UpdateStudentSubjects(old_code, new_code) ==
  LET r == update_student_subjects(database, old_code, new_code)
  IN  /\ database' = r.db
      /\ last' = Call("update_student_subjects", old_code, <<new_code>>, r.ret)
      /\ UNCHANGED <<in_flight, next_class_id, next_review_id, db_file>>

\* A creation that draws its code before validating, so a refused creation
\* uses one up.
CreateClassCodeDrawnFirst(data) ==
  /\ next_class_id <= MaxClasses
  /\ LET r == create_class(database, next_class_id, data)
     IN  /\ database' = r.db
         /\ next_class_id' = next_class_id + 1
         /\ last' = Call("create_class",
                         IF r.ret = SUCCESS THEN next_class_id ELSE 0, data, r.ret)
         /\ UNCHANGED <<in_flight, next_review_id, db_file>>

CreateClass(data) ==
  /\ next_class_id <= MaxClasses
  /\ LET r == create_class(database, next_class_id, data)
     IN  /\ database' = r.db
         /\ next_class_id' = r.next
         /\ last' = Call("create_class",
                         IF r.ret = SUCCESS THEN next_class_id ELSE 0, data, r.ret)
         /\ UNCHANGED <<in_flight, next_review_id, db_file>>

ExistsClass(data) ==
  /\ last' = Call("exists_class", 0, data, exists_class(database, data))
  /\ UNCHANGED <<in_flight, database, next_class_id, next_review_id, db_file>>

UpdateClass(code, new_data) ==
  LET r == update_class(database, code, new_data)
  IN  /\ database' = r.db
      /\ last' = Call("update_class", code, new_data, r.ret)
      /\ UNCHANGED <<in_flight, next_class_id, next_review_id, db_file>>

DeleteClass(code) ==
  LET r == delete_class(database, code)
  IN  /\ database' = r.db
      /\ last' = Call("delete_class", code, <<>>, r.ret)
      /\ UNCHANGED <<in_flight, next_class_id, next_review_id, db_file>>

CreateReview(data) ==
  /\ next_review_id <= MaxReviews
  /\ LET r == create_review(database, next_review_id, data, Now)
     IN  /\ database' = r.db
         /\ next_review_id' = r.next
         /\ last' = Call("create_review",
                         IF r.ret = SUCCESS THEN next_review_id ELSE 0, data, r.ret)
         /\ UNCHANGED <<in_flight, next_class_id, db_file>>

UpdateReview(review_id, new_data) ==
  LET r == update_review(database, review_id, new_data)
  IN  /\ database' = r.db
      /\ last' = Call("update_review", review_id, new_data, r.ret)
      /\ UNCHANGED <<in_flight, next_class_id, next_review_id, db_file>>

DeleteReview(review_id) ==
  LET r == delete_review(database, review_id)
  IN  /\ database' = r.db
      /\ last' = Call("delete_review", review_id, <<>>, r.ret)
      /\ UNCHANGED <<in_flight, next_class_id, next_review_id, db_file>>

DeleteStudentSubject(enrollment, subject_code) ==
  LET r == delete_student_subject(database, enrollment, subject_code)
  IN  /\ database' = r.db
      /\ last' = Call("delete_student_subject", enrollment, <<subject_code>>, r.ret)
      /\ UNCHANGED <<in_flight, next_class_id, next_review_id, db_file>>

\* The three review associations called directly, with review_data =
\* {'id_aval': review_id} for the professor and the student.
CreateProfessorReview(prof_id, review_id) ==
  LET r == create_professor_review(database, prof_id, review_id)
  IN  /\ database' = r.db
      /\ last' = Call("create_professor_review", prof_id, <<review_id>>, r.ret)
      /\ UNCHANGED <<in_flight, next_class_id, next_review_id, db_file>>

CreateStudentReview(enrollment, review_id) ==
  LET r == create_student_review(database, enrollment, review_id)
  IN  /\ database' = r.db
      /\ last' = Call("create_student_review", enrollment, <<review_id>>, r.ret)
      /\ UNCHANGED <<in_flight, next_class_id, next_review_id, db_file>>

AssociateReviewToClass(class_code, review_id) ==
  LET r == associate_review_to_class(database, class_code, review_id)
  IN  /\ database' = r.db
      /\ last' = Call("associate_review_to_class", class_code, <<review_id>>, r.ret)
      /\ UNCHANGED <<in_flight, next_class_id, next_review_id, db_file>>

\* validate_review called on its own: it reads the store and writes nothing.
ValidateReview(data) ==
  /\ last' = Call("validate_review", 0, data, validate_review(database, data))
  /\ UNCHANGED <<in_flight, database, next_class_id, next_review_id, db_file>>

\* The result is kept in tenths in last.ret.
CalculateReviewAverageProfessor(prof_id) ==
  /\ last' = Call("calculate_review_average_professor", prof_id, <<>>,
                  calculate_review_average_professor(database, prof_id))
  /\ UNCHANGED <<in_flight, database, next_class_id, next_review_id, db_file>>

RegisterStudentAccount(student_data) ==
  LET r == register_student_account(database, student_data)
  IN  /\ database' = r.db
      /\ last' = Call("register_student_account", student_data.enrollment,
                      student_data, r.ret)
      /\ UNCHANGED <<in_flight, next_class_id, next_review_id, db_file>>

\* Lookups: the result is the position of the stored record returned, 0 for
\* None; nothing is written.

RetrieveSubject(code) ==
  /\ last' = Call("retrieve_subject", code, <<>>,
                  retrieve_subject(database, code))
  /\ UNCHANGED <<in_flight, database, next_class_id, next_review_id, db_file>>

RetrieveProfessor(prof_id) ==
  /\ last' = Call("retrieve_professor", prof_id, <<>>,
                  retrieve_professor(database, prof_id))
  /\ UNCHANGED <<in_flight, database, next_class_id, next_review_id, db_file>>

RetrieveStudent(enrollment) ==
  /\ last' = Call("retrieve_student", enrollment, <<>>,
                  retrieve_student(database, enrollment))
  /\ UNCHANGED <<in_flight, database, next_class_id, next_review_id, db_file>>

RetrieveClass(code) ==
  /\ last' = Call("retrieve_class", code, <<>>,
                  retrieve_class(database, code))
  /\ UNCHANGED <<in_flight, database, next_class_id, next_review_id, db_file>>

RetrieveReview(review_id) ==
  /\ last' = Call("retrieve_review", review_id, <<>>,
                  retrieve_review(database, review_id))
  /\ UNCHANGED <<in_flight, database, next_class_id, next_review_id, db_file>>

\* The result is the position of the student dictionary returned, 0 when the
\* error code is returned instead.
AuthenticateUser(enrollment, password) ==
  /\ last' = Call("authenticate_user", enrollment, password,
                  authenticate_user(database, enrollment, password))
  /\ UNCHANGED <<in_flight, database, next_class_id, next_review_id, db_file>>

SaveDb ==
  /\ db_file' = save_db(database)
  /\ last' = Call("save_db", 0, <<>>, SUCCESS)
  /\ UNCHANGED <<in_flight, database, next_class_id, next_review_id>>

InitializeDb ==
  LET r == initialize_db(database, db_file)
  IN  /\ database' = r.db
      /\ db_file' = r.file
      /\ last' = Call("initialize_db", 0, <<>>, r.ret)
      /\ UNCHANGED <<in_flight, next_class_id, next_review_id>>

\* Outside the program DB_FILE is deleted, or left empty.
FileRemoved ==
  /\ db_file' = NoFile
  /\ last' = Call("file_removed", 0, <<>>, SUCCESS)
  /\ UNCHANGED <<in_flight, database, next_class_id, next_review_id>>

FileEmptied ==
  /\ db_file' = [exists |-> TRUE, content |-> <<>>]
  /\ last' = Call("file_emptied", 0, <<>>, SUCCESS)
  /\ UNCHANGED <<in_flight, database, next_class_id, next_review_id>>

\* A new process imports the modules: the in-memory database is empty again
\* and both id counters are 1; the file stays as the last save left it.
StartSession ==
  /\ database' = EmptyDatabase
  /\ next_class_id' = 1
  /\ next_review_id' = 1
  /\ last' = Call("import", 0, <<>>, SUCCESS)
  /\ UNCHANGED <<in_flight, db_file>>

(***************************************************************************)
(* The class repository: classes over one subject and two professors.      *)
(***************************************************************************)
ClassCodes == 1..MaxClasses

\* Subject 1302 is never created and 20253 is no semester: both are refused.
ClassInputs ==
  {ClassInput(1301, 20241, <<1, 2>>, <<>>),
   ClassInput(1301, 20241, <<2, 1>>, <<>>),
   ClassInput(1301, 20242, <<1>>, <<>>),
   ClassInput(1302, 20241, <<1>>, <<>>),
   ClassInput(1301, 20253, <<1>>, <<>>)}

ClassPartials ==
  {[period |-> 20241],
   [period |-> 20242],
   [professors_ids |-> <<1, 2>>],
   [professors_ids |-> <<2>>],
   [subject_code |-> 1302, code |-> 9]}

NextClass ==
  \/ CreateSubject(SubjectInput(1301))
  \/ CreateProfessor(ProfessorInput("INF"))
  \/ \E p \in 1..MaxProfessors : DeleteProfessor(p)
  \/ \E data \in ClassInputs : CreateClass(data)
  \/ \E data \in ClassInputs : ExistsClass(data)
  \/ \E c \in ClassCodes, nd \in ClassPartials : UpdateClass(c, nd)
  \/ \E c \in ClassCodes : DeleteClass(c)

SpecClass == Init /\ [][NextClass]_vars

(***************************************************************************)
(* The review fan-out: one student, one subject, two professors, the       *)
(* classes they teach and the reviews written about them.                  *)
(***************************************************************************)
ReviewIds == 1..MaxReviews

FanOutClassInputs ==
  {ClassInput(1301, 20241, <<1>>, <<100>>),
   ClassInput(1301, 20242, <<1, 2>>, <<>>)}

FanOutClassPartials == {[professors_ids |-> <<2>>]}

FanOutReviewInputs == {ReviewInput(100, "PROF_GOOD", 1, 5)}

NextReview ==
  \/ CreateSubject(SubjectInput(1301))
  \/ CreateProfessor(ProfessorInput("INF"))
  \/ \E p \in 1..MaxProfessors : DeleteProfessor(p)
  \/ CreateStudent(StudentInput(100))
  \/ \E data \in FanOutClassInputs : CreateClass(data)
  \/ \E c \in ClassCodes, nd \in FanOutClassPartials : UpdateClass(c, nd)
  \/ \E c \in ClassCodes : DeleteClass(c)
  \/ \E data \in FanOutReviewInputs : CreateReview(data)
  \/ \E r \in ReviewIds : DeleteReview(r)

SpecReview == Init /\ [][NextReview]_vars

(***************************************************************************)
(* The student cascade: two students, one subject, one professor, the      *)
(* classes and the reviews, every operation but delete_professor.          *)
(***************************************************************************)
CascadeStudents == {100, 101}

CascadeClassInputs == {ClassInput(1301, 20241, <<1>>, <<100, 100>>)}

CascadeReviewInputs ==
  {ReviewInput(100, "PROF_GOOD", 1, 5),
   ReviewInput(101, "CLASS_BORING", 1, None),
   ReviewInput(101, "CANTEEN", None, 3)}

CascadeReviewPartials == {[student_enrollment |-> 100]}

NextCascade ==
  \/ CreateSubject(SubjectInput(1301))
  \/ DeleteSubject(1301)
  \/ CreateProfessor(ProfessorInput("INF"))
  \/ \E e \in CascadeStudents : CreateStudent(StudentInput(e))
  \/ \E e \in CascadeStudents : DeleteStudent(e)
  \/ \E data \in CascadeClassInputs : CreateClass(data)
  \/ \E c \in ClassCodes : DeleteClass(c)
  \/ \E data \in CascadeReviewInputs : CreateReview(data)
  \/ \E r \in ReviewIds, nd \in CascadeReviewPartials : UpdateReview(r, nd)
  \/ \E r \in ReviewIds : DeleteReview(r)

SpecCascade == Init /\ [][NextCascade]_vars

(***************************************************************************)
(* The subject catalogue: two subjects, the student and the professor who  *)
(* list them, and a class of one of them.                                  *)
(***************************************************************************)
SubjectCodes == {1301, 1302}

NextSubject ==
  \/ \E s \in SubjectCodes : CreateSubject(SubjectInput(s))
  \/ \E s \in SubjectCodes : DeleteSubject(s)
  \/ CreateStudent(StudentInput(100))
  \/ CreateProfessor(ProfessorInput("INF"))
  \/ \E s \in SubjectCodes : CreateStudentSubject(100, s)
  \/ \E s \in SubjectCodes : DeleteStudentSubject(100, s)
  \/ \E old, new \in SubjectCodes : UpdateStudentSubjects(old, new)
  \/ \E s \in SubjectCodes : CreateProfessorSubject(1, s)
  \/ \E old, new \in SubjectCodes : UpdateProfessorSubjects(old, new)
  \/ CreateClass(ClassInput(1301, 20241, <<1>>, <<>>))

SpecSubject == Init /\ [][NextSubject]_vars

(***************************************************************************)
(* Sessions: the store is saved, a new process starts with fresh counters  *)
(* and loads the snapshot.                                                 *)
(***************************************************************************)
SessionClassInputs ==
  {ClassInput(1301, 20241, <<1>>, <<>>), ClassInput(1301, 20242, <<1>>, <<>>)}

SessionReviewInputs == {ReviewInput(100, "CANTEEN", None, 3)}

NextSession ==
  \/ CreateSubject(SubjectInput(1301))
  \/ CreateProfessor(ProfessorInput("INF"))
  \/ CreateStudent(StudentInput(100))
  \/ \E data \in SessionClassInputs :
       Len(database.classes) < MaxClasses /\ CreateClass(data)
  \/ \E data \in SessionReviewInputs :
       Len(database.reviews) < MaxReviews /\ CreateReview(data)
  \/ SaveDb
  \/ InitializeDb
  \/ StartSession

SpecSession == Init /\ [][NextSession]_vars

(***************************************************************************)
(* Updates: one record of each collection and the partial dictionaries     *)
(* applied to it, valid and invalid, with and without the PK field.        *)
(***************************************************************************)
SubjectPartials ==
  {[name |-> <<"X">>],
   [credits |-> 6],
   [description |-> <<"e">>],
   [name |-> <<"X">>, credits |-> 4, code |-> 1302],
   [name |-> <<"X">>, credits |-> -1]}

ProfessorPartials == {[name |-> <<"B">>, id |-> 2], [department |-> "XXX"]}

StudentPartials == {[name |-> <<"M">>, enrollment |-> 101], [course |-> "XXX"]}

UpdateClassPartials == {[period |-> 20242, code |-> 2], [period |-> 20253]}

UpdateReviewPartials == {[stars |-> 2, id_aval |-> 2], [stars |-> 7]}

\* One record per collection is enough here: a second professor or review
\* is not created.
NextUpdate ==
  \/ CreateSubject(SubjectInput(1301))
  \/ database.professors = <<>> /\ CreateProfessor(ProfessorInput("INF"))
  \/ CreateStudent(StudentInput(100))
  \/ CreateClass(ClassInput(1301, 20241, <<1>>, <<100>>))
  \/ database.reviews = <<>> /\ CreateReview(ReviewInput(100, "PROF_GOOD", 1, 5))
  \/ \E c \in SubjectCodes, nd \in SubjectPartials : UpdateSubject(c, nd)
  \/ \E p \in {1, 2}, nd \in ProfessorPartials : UpdateProfessor(p, nd)
  \/ \E e \in CascadeStudents, nd \in StudentPartials : UpdateStudent(e, nd)
  \/ \E e \in CascadeStudents, c \in {"ENG_COMP", "XXX"} : UpdateStudentCourse(e, c)
  \/ \E c \in {1, 2}, nd \in UpdateClassPartials : UpdateClass(c, nd)
  \/ \E r \in {1, 2}, nd \in UpdateReviewPartials : UpdateReview(r, nd)

SpecUpdate == Init /\ [][NextUpdate]_vars

(***************************************************************************)
(* Associations: the five association-create functions called directly on  *)
(* one professor, one student and one class.                               *)
(***************************************************************************)
AssociationReviewIds == {1, 2}

NextAssociation ==
  \/ \E c \in SubjectCodes : CreateSubject(SubjectInput(c))
  \/ database.professors = <<>> /\ CreateProfessor(ProfessorInput("INF"))
  \/ CreateStudent(StudentInput(100))
  \/ CreateClass(ClassInput(1301, 20241, <<1>>, <<>>))
  \/ \E p \in {1, 2}, c \in SubjectCodes : CreateProfessorSubject(p, c)
  \/ \E e \in CascadeStudents, c \in SubjectCodes : CreateStudentSubject(e, c)
  \/ \E c \in SubjectCodes : DeleteStudentSubject(100, c)
  \/ \E p \in {1, 2}, r \in AssociationReviewIds : CreateProfessorReview(p, r)
  \/ \E e \in CascadeStudents, r \in AssociationReviewIds : CreateStudentReview(e, r)
  \/ \E c \in {1, 2}, r \in AssociationReviewIds : AssociateReviewToClass(c, r)

SpecAssociation == Init /\ [][NextAssociation]_vars

(***************************************************************************)
(* Validation of reviews: every kind of category against an absent, an     *)
(* existing and a dangling class_target_code, before and after the author  *)
(* and the class exist.                                                    *)
(***************************************************************************)
ValidatedCategories == {"PROF_BAD", "OTHER", "CANTEEN", "GENERAL_TOPICS", "NOT_A_TAG"}

\* The review without the class_target_code key.
WithoutClassTarget(data) == [k \in DOMAIN data \ {"class_target_code"} |-> data[k]]

ValidatedReviews ==
  LET full == {ReviewInput(100, cat, c, st) :
                 cat \in ValidatedCategories, c \in {None, 0, 1, 2}, st \in {None, 5, 6}}
  IN  full \cup {WithoutClassTarget(d) : d \in full}

NextValidate ==
  \/ CreateSubject(SubjectInput(1301))
  \/ database.professors = <<>> /\ CreateProfessor(ProfessorInput("INF"))
  \/ CreateStudent(StudentInput(100))
  \/ DeleteStudent(100)
  \/ CreateClass(ClassInput(1301, 20241, <<1>>, <<>>))
  \/ \E c \in {1, 2} : DeleteClass(c)
  \/ \E data \in ValidatedReviews : ValidateReview(data)

SpecValidate == Init /\ [][NextValidate]_vars

(***************************************************************************)
(* Averages: a professor whose class has received up to MaxListed reviews, *)
(* some without stars.                                                     *)
(***************************************************************************)
MaxListed == 20

\* The store after create_subject, create_professor, create_student,
\* create_class and one create_review per entry of stars, each review on
\* class 1: review i is stored under id i and listed by its author, by the
\* class and by the professor of the class.
ReviewedProfessorStore(stars) ==
  LET db1 == create_subject(EmptyDatabase, SubjectInput(1301)).db
      db2 == create_professor(db1, ProfessorInput("INF")).db
      db3 == create_student(db2, StudentInput(100)).db
      db4 == create_class(db3, 1, ClassInput(1301, 20241, <<1>>, <<>>)).db
      ids == [i \in 1..Len(stars) |-> i]
      review_record(i) ==
        [id_aval |-> i, student_enrollment |-> 100, date_time |-> Now,
         title |-> <<"T">>, comment |-> <<"C">>, category |-> "PROF_GOOD",
         is_anonymous |-> FALSE, stars |-> stars[i], class_target_code |-> 1,
         mentions |-> <<>>]
  IN  [db4 EXCEPT !.reviews = [i \in 1..Len(stars) |-> review_record(i)],
                  !.students[1].reviews = ids,
                  !.professors[1].reviews = ids,
                  !.classes[1].reviews_ids = ids]

\* unstarred reviews without stars, then low reviews of `lo` stars, then
\* high reviews of `hi` stars.
StarsTally(unstarred, low, high, lo, hi) ==
  [i \in 1..(unstarred + low + high) |->
     IF i <= unstarred THEN None ELSE IF i <= unstarred + low THEN lo ELSE hi]

StarLists ==
  {<<4, 5, 3, 5>>} \cup
  {StarsTally(u, l, h, pair[1], pair[2]) :
     pair \in {<<4, 5>>, <<0, 1>>},
     u \in 0..2,
     l \in 0..MaxListed,
     h \in 0..MaxListed}

InitAverage ==
  /\ \E stars \in {st \in StarLists : Len(st) <= MaxListed} :
       /\ database = ReviewedProfessorStore(stars)
       /\ next_review_id = Len(stars) + 1
  /\ next_class_id = 2
  /\ last = Call("import", 0, <<>>, SUCCESS)
  /\ db_file = NoFile
  /\ in_flight = NoCalls

NextAverage ==
  \/ \E p \in {1, 2} : CalculateReviewAverageProfessor(p)
  \/ CreateProfessorReview(1, MaxListed + 1)

SpecAverage == InitAverage /\ [][NextAverage]_vars

(***************************************************************************)
(* Accounts: two enrollments and two usernames, registered or created      *)
(* directly, renamed and deleted.                                          *)
(***************************************************************************)
AccountInput(enrollment, username, email) ==
  [StudentInput(enrollment) EXCEPT !.username = username,
                                   !.institutional_email = email]

AccountInputs ==
  {AccountInput(e, u, m) :
     e \in CascadeStudents \cup {0},
     u \in {<<"u">>, <<"v">>},
     m \in {<<"a">> \o PucDomain, <<"A", "@", "P", "U", "C", "-", "R", "I", "O", ".", "B", "R">>,
            <<"a", "@", "x", ".", "b", "r">>}}

AccountPartials == {[username |-> <<"u">>], [username |-> <<"v">>], [name |-> <<>>]}

NextAccount ==
  \/ \E data \in AccountInputs : RegisterStudentAccount(data)
  \/ \E data \in AccountInputs : CreateStudent(data)
  \/ \E e \in CascadeStudents, nd \in AccountPartials : UpdateStudent(e, nd)
  \/ \E e \in CascadeStudents : DeleteStudent(e)

SpecAccount == Init /\ [][NextAccount]_vars

\* Accounts registered, their passwords changed, accounts deleted, and logins
\* tried with either password on present, absent and malformed enrollments.
Passwords == {<<"p">>, <<"q">>}

LoginInputs ==
  {[AccountInput(e, <<"u", ToString(e)>>, <<"a">> \o PucDomain) EXCEPT !.password = pw] :
     e \in CascadeStudents, pw \in Passwords}

NextLogin ==
  \/ \E data \in LoginInputs : RegisterStudentAccount(data)
  \/ \E e \in CascadeStudents, pw \in Passwords : UpdateStudent(e, [password |-> pw])
  \/ \E e \in CascadeStudents : DeleteStudent(e)
  \/ \E e \in CascadeStudents \cup {-1, 0, 999}, pw \in Passwords : AuthenticateUser(e, pw)

SpecLogin == Init /\ [][NextLogin]_vars

(***************************************************************************)
(* The snapshot file: saved, loaded, removed and emptied around mutations  *)
(* of the store.                                                           *)
(***************************************************************************)
NextPersist ==
  \/ \E c \in SubjectCodes : CreateSubject(SubjectInput(c))
  \/ \E c \in SubjectCodes : DeleteSubject(c)
  \/ database.professors = <<>> /\ CreateProfessor(ProfessorInput("INF"))
  \/ CreateStudent(StudentInput(100))
  \/ DeleteStudent(100)
  \/ \E c \in SubjectCodes : CreateStudentSubject(100, c)
  \/ SaveDb
  \/ InitializeDb
  \/ FileRemoved
  \/ FileEmptied

SpecPersist == Init /\ [][NextPersist]_vars

(***************************************************************************)
(* Deletes: every delete function on existing, absent and malformed keys,  *)
(* over a store with a class and a review that refer to the other records. *)
(***************************************************************************)
NextDelete ==
  \/ CreateSubject(SubjectInput(1301))
  \/ CreateProfessor(ProfessorInput("INF"))
  \/ CreateStudent(StudentInput(100))
  \/ CreateClass(ClassInput(1301, 20241, <<1>>, <<100>>))
  \/ database.reviews = <<>> /\ CreateReview(ReviewInput(100, "PROF_GOOD", 1, 5))
  \/ \E c \in {-1, 0, 1301, 1302} : DeleteSubject(c)
  \/ \E p \in {-1, 0} \cup 1..(MaxProfessors + 1) : DeleteProfessor(p)
  \/ \E e \in {-1, 0, 100, 101} : DeleteStudent(e)
  \/ \E c \in {-1, 0} \cup 1..(MaxClasses + 1) : DeleteClass(c)
  \/ \E r \in {-1, 0} \cup 1..(MaxReviews + 1) : DeleteReview(r)

SpecDelete == Init /\ [][NextDelete]_vars

\* Lookups by malformed, absent and present keys in stores that are built up
\* and taken down again.
NextRetrieve ==
  \/ NextDelete
  \/ \E c \in {-1, 0, 1301, 1302} : RetrieveSubject(c)
  \/ \E p \in {-1, 0} \cup 1..(MaxProfessors + 1) : RetrieveProfessor(p)
  \/ \E e \in {-1, 0, 100, 101} : RetrieveStudent(e)
  \/ \E c \in {-1, 0} \cup 1..(MaxClasses + 1) : RetrieveClass(c)
  \/ \E r \in {-1, 0} \cup 1..(MaxReviews + 1) : RetrieveReview(r)

SpecRetrieve == Init /\ [][NextRetrieve]_vars

(***************************************************************************)
(* Professor ids: professors created, from valid and invalid data, and     *)
(* deleted in any order, so that ids are issued above a gap.               *)
(***************************************************************************)

ProfessorInputs ==
  {ProfessorInput("INF"), ProfessorInput("MATH"), ProfessorInput("XXX"),
   [ProfessorInput("INF") EXCEPT !.name = <<" ">>], [name |-> <<"A">>]}

NextProfessor ==
  \/ \E data \in ProfessorInputs : CreateProfessorUpTo(MaxProfessorId, data)
  \/ \E p \in 0..MaxProfessorId : DeleteProfessor(p)
  \/ \E p \in 1..MaxProfessorId, nd \in ProfessorPartials : UpdateProfessor(p, nd)

SpecProfessor == Init /\ [][NextProfessor]_vars

\* create_professor calls of two threads, run one after the other or
\* interleaved between the computation of the id and the append.
NextThreads ==
  \/ \E t \in Threads, data \in ProfessorInputs : ProfessorIdComputed(t, data)
  \/ \E t \in Threads : ProfessorRecordAppended(t)

SpecThreads == Init /\ [][NextThreads]_vars

(***************************************************************************)
(* Vocabulary of the claims, written from the data model and not from the  *)
(* repository functions.                                                   *)
(***************************************************************************)
Subjects == Range(database.subjects)
Professors == Range(database.professors)
Students == Range(database.students)
Classes == Range(database.classes)
Reviews == Range(database.reviews)

SameMembers(a, b) == \A x \in Range(a) \cup Range(b) : Contains(a, x) <=> Contains(b, x)

\* A class record of db with data's subject_code, period and professor set.
HasIdenticalClass(db, data) ==
  \E c \in Range(db.classes) :
    /\ c.subject_code = data.subject_code
    /\ c.period = data.period
    /\ SameMembers(c.professors_ids, data.professors_ids)

\* rec's subject_code and professors_ids resolve in db.
ClassRefsResolve(db, rec) ==
  /\ \E s \in Range(db.subjects) : s.code = rec.subject_code
  /\ rec.professors_ids # <<>>
  /\ \A k \in 1..Len(rec.professors_ids) :
       \E p \in Range(db.professors) : p.id = rec.professors_ids[k]

\* The class records of db with this code.
ClassesWithCode(db, code) == {c \in Range(db.classes) : c.code = code}

LastSucceeded(op) == last.op = op /\ last.ret = SUCCESS

\* Review id r is in the reviews list of the student with enrollment e.
InStudentReviews(db, e, r) ==
  \E st \in Range(db.students) : st.enrollment = e /\ Contains(st.reviews, r)

\* Review id r is in the reviews_ids of the class with code c.
InClassReviews(db, c, r) ==
  \E cl \in Range(db.classes) : cl.code = c /\ Contains(cl.reviews_ids, r)

\* Review id r is in the reviews list of the professor with id p.
InProfessorReviews(db, p, r) ==
  \E pr \in Range(db.professors) : pr.id = p /\ Contains(pr.reviews, r)

ProfessorExists(db, p) == \E pr \in Range(db.professors) : pr.id = p

\* The ids listed in professors_ids by the class with code c.
ProfessorsListedBy(db, c) ==
  UNION {Range(cl.professors_ids) : cl \in ClassesWithCode(db, c)}

\* Review id r occurs nowhere in db.
ReviewGone(db, r) ==
  /\ \A rv \in Range(db.reviews) : rv.id_aval # r
  /\ \A st \in Range(db.students) : ~Contains(st.reviews, r)
  /\ \A cl \in Range(db.classes) : ~Contains(cl.reviews_ids, r)
  /\ \A pr \in Range(db.professors) : ~Contains(pr.reviews, r)

ClassTargetedReviewCreated ==
  LastSucceeded("create_review") /\ last.data.class_target_code # None

\* The store of the scenario: Subject 1301, Professor 1, Class 1 taught by
\* professor 1, Student 100, and review 1 just created by 100 about class 1.
FirstReviewScenario ==
  /\ LastSucceeded("create_review") /\ last.key = 1
  /\ last.data.student_enrollment = 100 /\ last.data.class_target_code = 1
  /\ Len(database.subjects) = 1 /\ database.subjects[1].code = 1301
  /\ Len(database.professors) = 1 /\ database.professors[1].id = 1
  /\ Len(database.classes) = 1 /\ database.classes[1].code = 1
  /\ database.classes[1].professors_ids = <<1>>
  /\ Len(database.students) = 1 /\ database.students[1].enrollment = 100
  /\ Len(database.reviews) = 1

FirstReviewLists ==
  FirstReviewScenario =>
    /\ database.classes[1].reviews_ids = <<1>>
    /\ database.professors[1].reviews = <<1>>
    /\ database.students[1].reviews = <<1>>

(***************************************************************************)
(* C1 as stated.  After a create_review that returns SUCCESS with id r,    *)
(* author e and class c, r is in Student(e).reviews, in Class(c)           *)
(* .reviews_ids and in Professor(p).reviews for every p in                 *)
(* Class(c).professors_ids; in the scenario from the empty store the three *)
(* lists are exactly [1].                                                  *)
(***************************************************************************)
C1_FanOutToEveryListedId ==
  /\ ClassTargetedReviewCreated =>
       /\ InStudentReviews(database, last.data.student_enrollment, last.key)
       /\ InClassReviews(database, last.data.class_target_code, last.key)
       /\ \A p \in ProfessorsListedBy(database, last.data.class_target_code) :
            InProfessorReviews(database, p, last.key)
  /\ FirstReviewLists

(***************************************************************************)
(* C1, amended.  After a create_review that returns SUCCESS with id r,     *)
(* author e and class c, r is in Student(e).reviews, in Class(c)           *)
(* .reviews_ids and in Professor(p).reviews for every p in                 *)
(* Class(c).professors_ids that names an existing professor; in the        *)
(* scenario from the empty store the three lists are exactly [1].          *)
(***************************************************************************)
C1_FanOutToExistingProfessors ==
  /\ ClassTargetedReviewCreated =>
       /\ InStudentReviews(database, last.data.student_enrollment, last.key)
       /\ InClassReviews(database, last.data.class_target_code, last.key)
       /\ \A p \in ProfessorsListedBy(database, last.data.class_target_code) :
            ProfessorExists(database, p) => InProfessorReviews(database, p, last.key)
  /\ FirstReviewLists

\* A review was fanned out to a class taught by two professors.
C1_Witness ==
  /\ ClassTargetedReviewCreated
  /\ \E p, q \in ProfessorsListedBy(database, last.data.class_target_code) :
       /\ p # q
       /\ InProfessorReviews(database, p, last.key)
       /\ InProfessorReviews(database, q, last.key)

(***************************************************************************)
(* C2.  After delete_review(r) returns SUCCESS, r is not in the reviews    *)
(* collection and occurs in no student's reviews list, in no class's       *)
(* reviews_ids and in no professor's reviews list.                         *)
(***************************************************************************)
C2_DeletedReviewGone ==
  LastSucceeded("delete_review") => ReviewGone(database, last.key)

(***************************************************************************)
(* C3.  After delete_student(e) returns SUCCESS, every review that e       *)
(* authored and that targeted a class C is gone from the reviews           *)
(* collection, from C.reviews_ids and from the reviews list of every       *)
(* professor teaching C.                                                   *)
(***************************************************************************)
C3_AuthoredReviewsGone ==
  [][(last'.op = "delete_student" /\ last'.ret = SUCCESS) =>
       \A rv \in Range(database.reviews) :
         (rv.student_enrollment = last'.key /\ rv.class_target_code # None) =>
           /\ \A rw \in Range(database'.reviews) : rw.id_aval # rv.id_aval
           /\ ~InClassReviews(database', rv.class_target_code, rv.id_aval)
           /\ \A p \in ProfessorsListedBy(database', rv.class_target_code) :
                ~InProfessorReviews(database', p, rv.id_aval)]_vars

(***************************************************************************)
(* C4.  After delete_student(e) returns SUCCESS the student e is no longer *)
(* retrievable, no class's students_enrollments contains e, and no         *)
(* remaining review has student_enrollment = e.                            *)
(***************************************************************************)
C4_StudentGone ==
  LastSucceeded("delete_student") =>
    /\ retrieve_student(database, last.key) = 0
    /\ \A cl \in Classes : ~Contains(cl.students_enrollments, last.key)
    /\ \A rv \in Reviews : rv.student_enrollment # last.key

(***************************************************************************)
(* C5.  After delete_subject(s) returns SUCCESS, subject s is not          *)
(* retrievable, no class has subject_code = s, and s occurs in no          *)
(* student's and in no professor's subjects list.                          *)
(***************************************************************************)
C5_SubjectGone ==
  LastSucceeded("delete_subject") =>
    /\ retrieve_subject(database, last.key) = 0
    /\ \A cl \in Classes : cl.subject_code # last.key
    /\ \A st \in Students : ~Contains(st.subjects, last.key)
    /\ \A pr \in Professors : ~Contains(pr.subjects, last.key)

(***************************************************************************)
(* C6.  In every state reachable through the public operations other than  *)
(* delete_professor, every review whose class_target_code is non-null      *)
(* refers to a class that exists.                                          *)
(***************************************************************************)
C6_ReviewTargetsExist ==
  \A rv \in Reviews :
    rv.class_target_code # None => ClassesWithCode(database, rv.class_target_code) # {}

\* No two records of the collection have the same value in pk_field.
PrimaryKeyUnique(coll, pk_field) ==
  \A i, j \in 1..Len(coll) : coll[i][pk_field] = coll[j][pk_field] => i = j

\* The primary keys of the collection, in record order.
PrimaryKeys(coll, pk_field) == [i \in 1..Len(coll) |-> coll[i][pk_field]]

UpdateOps ==
  {"update_subject", "update_professor", "update_student", "update_student_course",
   "update_class", "update_review"}

\* A partial for update_subject that supplies only name, only credits or
\* only description, with a valid value.
OneValidSubjectField(new_data) ==
  \/ DOMAIN new_data = {"name"}
       /\ Strip(new_data.name) # <<>> /\ Len(Strip(new_data.name)) <= MAX_LENGTH_NAME
  \/ DOMAIN new_data = {"credits"} /\ new_data.credits >= 0
  \/ DOMAIN new_data = {"description"}

\* The list holds no value twice.
NoValueTwice(list) ==
  \A i, j \in 1..Len(list) : list[i] = list[j] => i = j

\* What a rename of old_code to new_code is to do to the records of one
\* collection: before and after are the collection around the call.
RenamedEverywhere(before, after, old_code, new_code, ret) ==
  IF \A i \in 1..Len(before) : ~Contains(before[i].subjects, old_code)
  THEN ret = ERROR /\ after = before
  ELSE /\ ret = SUCCESS
       /\ Len(after) = Len(before)
       /\ \A i \in 1..Len(after) :
            /\ ~Contains(after[i].subjects, old_code)
            /\ Contains(before[i].subjects, old_code)
                 => Contains(after[i].subjects, new_code)
            /\ ~Contains(before[i].subjects, old_code) => after[i] = before[i]

\* Everything validate_review asks of a review apart from its category and
\* its class_target_code.
OtherwiseValidReview(data) ==
  /\ review_required_fields \subseteq DOMAIN data
  /\ \E s \in Students : s.enrollment = data.student_enrollment
  /\ data.title # <<>> /\ Len(data.title) <= MAX_TITLE_LENGTH
  /\ data.comment # <<>> /\ Len(data.comment) <= MAX_COMMENT_LENGTH
  /\ "stars" \in DOMAIN data => data.stars = None \/ data.stars \in 0..5
  /\ data.is_anonymous \in BOOLEAN

ClassTargetAbsent(data) ==
  "class_target_code" \notin DOMAIN data \/ data.class_target_code = None

\* The listed ids of professor prof whose review exists and carries stars,
\* in list order, and their stars.
StarredListed(prof) ==
  SelectSeq(prof.reviews,
            LAMBDA id : \E r \in Reviews : r.id_aval = id /\ r.stars # None)

StarsOf(id) == (CHOOSE r \in Reviews : r.id_aval = id).stars

RECURSIVE SumOfStars(_)
SumOfStars(ids) == IF ids = <<>> THEN 0 ELSE StarsOf(Head(ids)) + SumOfStars(Tail(ids))

\* total / count rounded to one decimal, a tie going to the even digit; in
\* tenths.
RoundHalfEven(total, count) ==
  LET n == (10 * total) \div count
      rest == (10 * total) % count
  IN  IF 2 * rest < count THEN n
      ELSE IF 2 * rest > count THEN n + 1
      ELSE IF n % 2 = 0 THEN n ELSE n + 1

\* The input passes the validation of the create function and collides with
\* no record of store db.
ValidNewInput(db, op, data) ==
  CASE op = "create_subject" ->
         validate_subject(data) = SUCCESS /\ repo_retrieve_subject(db, data.code) = 0
    [] op = "create_professor" -> validate_professor(data) = SUCCESS
    [] op = "create_student" ->
         validate_student(data) = SUCCESS /\ repo_retrieve_student(db, data.enrollment) = 0
    [] op = "create_class" ->
         validate_class(db, data) = SUCCESS /\ exists_class(db, data) # SUCCESS
    [] op = "create_review" -> validate_review(db, data) = SUCCESS
    [] OTHER -> FALSE

\* The record that the retrieve function paired with create function op
\* returns for primary key pk in store db; <<>> stands for None.
Retrieved(db, op, pk) ==
  LET coll == CASE op = "create_subject" -> db.subjects
                [] op = "create_professor" -> db.professors
                [] op = "create_student" -> db.students
                [] op = "create_class" -> db.classes
                [] OTHER -> db.reviews
      pk_field == CASE op = "create_subject" -> "code"
                    [] op = "create_professor" -> "id"
                    [] op = "create_student" -> "enrollment"
                    [] op = "create_class" -> "code"
                    [] OTHER -> "id_aval"
      i == find_entity_by_pk(coll, pk, pk_field)
  IN  IF i = 0 THEN <<>> ELSE coll[i]

\* record carries every field of data with the value data gives it.
CarriesInput(record, data) ==
  \A f \in DOMAIN data : f \in DOMAIN record /\ record[f] = data[f]

CreateOps ==
  {"create_subject", "create_professor", "create_student", "create_class",
   "create_review"}

UsernameTaken(db, username) == \E i \in 1..Len(db.students) : db.students[i].username = username

EnrollmentExists(db, enrollment) ==
  \E i \in 1..Len(db.students) : db.students[i].enrollment = enrollment

DeleteOps ==
  {"delete_subject", "delete_professor", "delete_student", "delete_class",
   "delete_review"}

\* Store db holds a record under primary key pk in the collection that
\* delete function op works on.
DeleteTargetExists(db, op, pk) ==
  CASE op = "delete_subject" -> \E i \in 1..Len(db.subjects) : db.subjects[i].code = pk
    [] op = "delete_professor" -> \E i \in 1..Len(db.professors) : db.professors[i].id = pk
    [] op = "delete_student" -> \E i \in 1..Len(db.students) : db.students[i].enrollment = pk
    [] op = "delete_class" -> \E i \in 1..Len(db.classes) : db.classes[i].code = pk
    [] op = "delete_review" -> \E i \in 1..Len(db.reviews) : db.reviews[i].id_aval = pk
    [] OTHER -> FALSE

\* The largest id among the professor records of db, 0 when there are none.
LargestProfessorId(db) ==
  IF db.professors = <<>> THEN 0
  ELSE LET ids == {db.professors[i].id : i \in 1..Len(db.professors)}
       IN  CHOOSE m \in ids : \A x \in ids : x <= m

AssociationCreateOps ==
  {"create_professor_subject", "create_student_subject", "create_professor_review",
   "create_student_review", "associate_review_to_class"}

(***************************************************************************)
(* C7.  In every state reachable through create_class, update_class and    *)
(* delete_class, no two class records have the same subject_code, the same *)
(* period and the same set of professor ids.                               *)
(***************************************************************************)
C7_ClassKeyUnique ==
  \A i, j \in 1..Len(database.classes) :
    i # j =>
      ~(/\ database.classes[i].subject_code = database.classes[j].subject_code
        /\ database.classes[i].period = database.classes[j].period
        /\ SameMembers(database.classes[i].professors_ids,
                       database.classes[j].professors_ids))

(***************************************************************************)
(* C8.  create_class(data) returns ERROR and leaves the classes collection *)
(* unchanged whenever an existing class has data's subject_code, period    *)
(* and set of professor ids, whatever the order of data.professors_ids;    *)
(* exists_class(data) returns SUCCESS for exactly those data.              *)
(***************************************************************************)
C8_DuplicateClassRejected ==
  [][/\ (last'.op = "create_class" /\ HasIdenticalClass(database, last'.data))
          => (last'.ret = ERROR /\ database'.classes = database.classes)
     /\ last'.op = "exists_class"
          => (last'.ret = SUCCESS <=> HasIdenticalClass(database, last'.data))]_vars

\* A valid create_class was refused for a class that lists the same
\* professors in another order.
C8_Witness ==
  /\ last.op = "create_class" /\ last.ret = ERROR
  /\ validate_class(database, last.data) = SUCCESS
  /\ \E c \in Classes :
       /\ c.subject_code = last.data.subject_code
       /\ c.period = last.data.period
       /\ c.professors_ids # last.data.professors_ids
       /\ Len(c.professors_ids) = 2
       /\ SameMembers(c.professors_ids, last.data.professors_ids)

(***************************************************************************)
(* C9.  Immediately after any create_class or update_class that returns    *)
(* SUCCESS, the class's subject_code resolves to an existing subject, its  *)
(* professors_ids is non-empty and every id in it resolves to an existing  *)
(* professor; when the subject or a listed professor does not exist the    *)
(* call returns ERROR.                                                     *)
(***************************************************************************)
C9_ClassReferencesResolve ==
  [][/\ last'.op = "create_class" =>
          /\ last'.ret = SUCCESS =>
               /\ ClassesWithCode(database', last'.key) # {}
               /\ \A c \in ClassesWithCode(database', last'.key) :
                    ClassRefsResolve(database', c)
          /\ ~ClassRefsResolve(database, last'.data) => last'.ret = ERROR
     /\ last'.op = "update_class" =>
          /\ last'.ret = SUCCESS =>
               /\ ClassesWithCode(database', last'.key) # {}
               /\ \A c \in ClassesWithCode(database', last'.key) :
                    ClassRefsResolve(database', c)
          /\ \A c \in ClassesWithCode(database, last'.key) :
               ~ClassRefsResolve(database, DictUpdate(c, last'.data))
                 => last'.ret = ERROR]_vars

\* update_class replaced the professors of a class by other, existing ones.
C9_Witness ==
  /\ LastSucceeded("update_class")
  /\ "professors_ids" \in DOMAIN last.data
  /\ \E c \in Classes :
       /\ c.code = last.key
       /\ c.professors_ids = last.data.professors_ids
       /\ Len(c.professors_ids) = 2

(***************************************************************************)
(* C10.  Immediately after any create_class or update_class that returns   *)
(* SUCCESS, every enrollment in the class's students_enrollments resolves  *)
(* to an existing student.                                                 *)
(***************************************************************************)
C10_RosterResolves ==
  (LastSucceeded("create_class") \/ LastSucceeded("update_class")) =>
    \A c \in ClassesWithCode(database, last.key) :
      \A k \in 1..Len(c.students_enrollments) :
        \E st \in Students : st.enrollment = c.students_enrollments[k]

(***************************************************************************)
(* C11.  In every reachable state no two records of the same collection    *)
(* share a primary key (subject code, professor id, student enrollment,    *)
(* class code, review id_aval), also in sessions in which initialize_db    *)
(* loaded a snapshot that already contains classes or reviews.             *)
(***************************************************************************)
C11_PrimaryKeysUnique ==
  /\ PrimaryKeyUnique(database.subjects, "code")
  /\ PrimaryKeyUnique(database.professors, "id")
  /\ PrimaryKeyUnique(database.students, "enrollment")
  /\ PrimaryKeyUnique(database.classes, "code")
  /\ PrimaryKeyUnique(database.reviews, "id_aval")

(***************************************************************************)
(* C12.  For each of update_subject, update_professor, update_student,     *)
(* update_class and update_review, whether the call succeeds or fails and  *)
(* even when the partial holds the PK field with another value, the target *)
(* record's PK and the PKs present in the collection are the same before   *)
(* and after.                                                              *)
(***************************************************************************)
C12_UpdateKeepsPrimaryKeys ==
  [][/\ last'.op = "update_subject" =>
          PrimaryKeys(database'.subjects, "code") = PrimaryKeys(database.subjects, "code")
     /\ last'.op = "update_professor" =>
          PrimaryKeys(database'.professors, "id") = PrimaryKeys(database.professors, "id")
     /\ last'.op = "update_student" =>
          PrimaryKeys(database'.students, "enrollment")
            = PrimaryKeys(database.students, "enrollment")
     /\ last'.op = "update_class" =>
          PrimaryKeys(database'.classes, "code") = PrimaryKeys(database.classes, "code")
     /\ last'.op = "update_review" =>
          PrimaryKeys(database'.reviews, "id_aval")
            = PrimaryKeys(database.reviews, "id_aval")]_vars

\* A successful update_student whose partial names another enrollment.
C12_Witness ==
  /\ LastSucceeded("update_student")
  /\ "enrollment" \in DOMAIN last.data
  /\ last.data.enrollment # last.key
  /\ \E st \in Students : st.enrollment = last.key /\ st.name = last.data.name

(***************************************************************************)
(* C13.  For an existing subject and a partial that supplies only name, or *)
(* only credits, or only description, with a valid value, update_subject   *)
(* returns SUCCESS and the stored subject is exactly the old record with   *)
(* the partial merged onto it.                                             *)
(***************************************************************************)
C13_PartialSubjectUpdate ==
  [][(last'.op = "update_subject" /\ OneValidSubjectField(last'.data)) =>
       \A i \in 1..Len(database.subjects) :
         database.subjects[i].code = last'.key =>
           /\ last'.ret = SUCCESS
           /\ database'.subjects =
                [database.subjects EXCEPT ![i] = DictUpdate(@, last'.data)]]_vars

(***************************************************************************)
(* C14.  Whenever update_subject, update_professor, update_student,        *)
(* update_student_course, update_class or update_review returns ERROR, all *)
(* five collections are exactly as before the call.                        *)
(***************************************************************************)
C14_FailedUpdateChangesNothing ==
  [][(last'.op \in UpdateOps /\ last'.ret = ERROR) => database' = database]_vars

\* update_class refused an existing class because the merged record is
\* invalid.
C14_Witness ==
  /\ last.op = "update_class" /\ last.ret = ERROR
  /\ \E c \in Classes :
       c.code = last.key /\ validate_class(database, DictUpdate(c, last.data)) = ERROR

(***************************************************************************)
(* C15.  For each association-create function (create_professor_subject,   *)
(* create_student_subject, create_professor_review, create_student_review, *)
(* associate_review_to_class): calling it a second time with the same      *)
(* (entity, associated id) pair returns ERROR and leaves the entity's list *)
(* as it was after the first call.                                         *)
(***************************************************************************)
C15_SecondAssociationRefused ==
  [][(/\ last.op \in AssociationCreateOps /\ last.ret = SUCCESS
      /\ last'.op = last.op /\ last'.key = last.key /\ last'.data = last.data)
       => (last'.ret = ERROR /\ database' = database)]_vars

\* associate_review_to_class refused a review id the class already lists.
C15_Witness ==
  /\ last.op = "associate_review_to_class" /\ last.ret = ERROR
  /\ InClassReviews(database, last.key, last.data[1])

(***************************************************************************)
(* C16.  In every state reached through the association, rename and        *)
(* cascade operations (create_professor_subject, create_student_subject,   *)
(* create_professor_review, create_student_review,                         *)
(* associate_review_to_class, update_professor_subjects,                   *)
(* update_student_subjects, create_review, delete_review, delete_student,  *)
(* delete_subject) no subjects list, no reviews list and no reviews_ids    *)
(* list holds the same value twice.                                        *)
(***************************************************************************)
C16_ListsHoldNoValueTwice ==
  /\ \A p \in Professors : NoValueTwice(p.subjects) /\ NoValueTwice(p.reviews)
  /\ \A s \in Students : NoValueTwice(s.subjects) /\ NoValueTwice(s.reviews)
  /\ \A c \in Classes : NoValueTwice(c.reviews_ids)

(***************************************************************************)
(* C17.  update_professor_subjects(old, new) and                           *)
(* update_student_subjects(old, new) with positive old # new: when old is  *)
(* in no record's subjects list the call returns ERROR and nothing         *)
(* changes; otherwise it returns SUCCESS and afterwards no list contains   *)
(* old, every record whose list contained old contains new, and every      *)
(* other record is unchanged.                                              *)
(***************************************************************************)
C17_RenameReplacesEverywhere ==
  [][(/\ last'.op \in {"update_professor_subjects", "update_student_subjects"}
      /\ last'.key > 0 /\ last'.data[1] > 0 /\ last'.key # last'.data[1])
       => /\ last'.op = "update_professor_subjects"
               => /\ RenamedEverywhere(database.professors, database'.professors,
                                       last'.key, last'.data[1], last'.ret)
                  /\ last'.ret = ERROR => database' = database
          /\ last'.op = "update_student_subjects"
               => /\ RenamedEverywhere(database.students, database'.students,
                                       last'.key, last'.data[1], last'.ret)
                  /\ last'.ret = ERROR => database' = database]_vars

(***************************************************************************)
(* C18.  In every state reached through create_student_subject,            *)
(* update_student_subjects, delete_student_subject and delete_subject,     *)
(* every code in a student's subjects list is the code of an existing      *)
(* subject.                                                                *)
(***************************************************************************)
C18_StudentSubjectsResolve ==
  \A s \in Students : \A i \in 1..Len(s.subjects) :
    repo_retrieve_subject(database, s.subjects[i]) # 0

\* The second half of C18: create_student_subject(e, s) returns ERROR and
\* changes nothing when student e or subject s does not exist.
C18_CreateStudentSubjectChecksBoth ==
  [][(/\ last'.op = "create_student_subject"
      /\ \/ repo_retrieve_student(database, last'.key) = 0
         \/ repo_retrieve_subject(database, last'.data[1]) = 0)
       => (last'.ret = ERROR /\ database' = database)]_vars

(***************************************************************************)
(* C19.  validate_review on data that is otherwise valid returns ERROR     *)
(* when the category is entity-focused and class_target_code is absent,    *)
(* SUCCESS when the category is a general-topic one and class_target_code  *)
(* is absent, and, for any recognised category, ERROR when                 *)
(* class_target_code is present but names no existing class.               *)
(***************************************************************************)
C19_ValidateReviewClassTarget ==
  (last.op = "validate_review" /\ OtherwiseValidReview(last.data)) =>
    LET data == last.data
    IN  /\ (data.category \in categories_requiring_class /\ ClassTargetAbsent(data))
             => last.ret = ERROR
        /\ (/\ data.category \in REVIEW_CATEGORIES \ categories_requiring_class
            /\ ClassTargetAbsent(data))
             => last.ret = SUCCESS
        /\ (/\ data.category \in REVIEW_CATEGORIES
            /\ ~ClassTargetAbsent(data)
            /\ \A c \in Classes : c.code # data.class_target_code)
             => last.ret = ERROR

\* An entity-focused review without its class was refused although its
\* author exists and the rest of it is valid.
C19_Witness ==
  /\ last.op = "validate_review" /\ OtherwiseValidReview(last.data)
  /\ last.data.category \in categories_requiring_class
  /\ ClassTargetAbsent(last.data)
  /\ last.ret = ERROR

(***************************************************************************)
(* C20.  calculate_review_average_professor(p) returns -1.0 when professor *)
(* p does not exist; 0.0 when p's reviews list is empty or no listed       *)
(* review has stars; otherwise the mean of the stars of the listed reviews *)
(* that exist and have stars, rounded to one decimal with ties going to    *)
(* the even digit.  The result is -1.0 or lies in [0.0, 5.0].  (Results in *)
(* tenths.)                                                                *)
(***************************************************************************)
C20_AverageIsRoundedMean ==
  last.op = "calculate_review_average_professor" =>
    /\ (\A p \in Professors : p.id # last.key) => last.ret = -10
    /\ \A p \in Professors : p.id = last.key =>
         LET ids == StarredListed(p)
         IN  IF ids = <<>> THEN last.ret = 0
             ELSE last.ret = RoundHalfEven(SumOfStars(ids), Len(ids))
    /\ last.ret = -10 \/ last.ret \in 0..50

(***************************************************************************)
(* C21.  For each of create_subject, create_professor, create_student,     *)
(* create_class and create_review: for every input that passes the         *)
(* validation and collides with no existing record, create returns         *)
(* SUCCESS and the new record is retrievable by its PK with, for every     *)
(* field supplied in the input, the value of the input.                    *)
(***************************************************************************)
C21_CreatedRecordCarriesInput ==
  [][(last'.op \in CreateOps /\ ValidNewInput(database, last'.op, last'.data))
       => /\ last'.ret = SUCCESS
          /\ Retrieved(database', last'.op, last'.key) # <<>>
          /\ CarriesInput(Retrieved(database', last'.op, last'.key), last'.data)]_vars

(***************************************************************************)
(* C22.  In every state reached through register_student_account,          *)
(* create_student, update_student and delete_student, no two student       *)
(* records have the same username.                                         *)
(***************************************************************************)
C22_UsernamesUnique ==
  \A i, j \in 1..Len(database.students) :
    database.students[i].username = database.students[j].username => i = j

\* The second half of C22: register_student_account returns ERROR and adds
\* no record when the username is taken or the enrollment exists.
C22_RegisterRefusesTaken ==
  [][(/\ last'.op = "register_student_account"
      /\ \/ UsernameTaken(database, last'.data.username)
         \/ EnrollmentExists(database, last'.data.enrollment))
       => (last'.ret = ERROR /\ database' = database)]_vars

(***************************************************************************)
(* C23.  initialize() called when the snapshot file is absent or empty     *)
(* returns SUCCESS and leaves the store as the empty schema (all five      *)
(* collections empty), whatever the in-memory store held before the call.  *)
(***************************************************************************)
C23_InitializeWithoutSnapshotEmpties ==
  [][(last'.op = "initialize_db" /\ (~db_file.exists \/ db_file.content = <<>>))
       => (last'.ret = SUCCESS /\ database' = EmptyDatabase)]_vars

(***************************************************************************)
(* C24.  persist() followed by any sequence of repository mutations and    *)
(* then initialize() restores all five collections to exactly their values *)
(* at the time of the persist(): persist() writes the whole store to the   *)
(* file and leaves the store alone, no repository function touches the     *)
(* file, and initialize() replaces the store by what the file holds.       *)
(***************************************************************************)
C24_InitializeRestoresSnapshot ==
  [][/\ last'.op = "save_db"
          => (db_file' = [exists |-> TRUE, content |-> <<database>>] /\ database' = database)
     /\ last'.op \notin {"save_db", "initialize_db", "file_removed", "file_emptied"}
          => db_file' = db_file
     /\ (last'.op = "initialize_db" /\ db_file.exists /\ db_file.content # <<>>)
          => (last'.ret = SUCCESS /\ database' = db_file.content[1] /\ db_file' = db_file)]_vars

\* initialize() has loaded a snapshot that holds a student and no subject.
C24_Witness ==
  /\ last.op = "initialize_db"
  /\ db_file.exists /\ db_file.content = <<database>>
  /\ database.students # <<>> /\ database.subjects = <<>>

(***************************************************************************)
(* C25.  For each of delete_subject, delete_professor, delete_student,     *)
(* delete_class and delete_review: called with a PK that is non-positive   *)
(* or that names no existing record, the call returns ERROR and all five   *)
(* collections are unchanged.                                              *)
(***************************************************************************)
C25_DeleteOfNothingIsError ==
  [][(/\ last'.op \in DeleteOps
      /\ (last'.key <= 0 \/ ~DeleteTargetExists(database, last'.op, last'.key)))
       => (last'.ret = ERROR /\ database' = database)]_vars

\* delete_professor refused an id that no professor of a non-empty store has.
C25_Witness ==
  /\ last.op = "delete_professor" /\ last.key > 0 /\ last.ret = ERROR
  /\ database.professors # <<>>
  /\ ~DeleteTargetExists(database, "delete_professor", last.key)

(***************************************************************************)
(* C26.  delete_professor(p) on an existing professor returns SUCCESS and  *)
(* removes exactly that professor record: the students, subjects, classes  *)
(* (every professors_ids that lists p included) and reviews collections,   *)
(* and every other professor record, are unchanged.                        *)
(***************************************************************************)
C26_DeleteProfessorRemovesOnlyTheRecord ==
  [][(/\ last'.op = "delete_professor"
      /\ DeleteTargetExists(database, "delete_professor", last'.key))
       => /\ last'.ret = SUCCESS
          /\ database'.professors =
               SelectSeq(database.professors, LAMBDA p : p.id # last'.key)
          /\ database'.students = database.students
          /\ database'.subjects = database.subjects
          /\ database'.classes = database.classes
          /\ database'.reviews = database.reviews]_vars

\* The professor is gone and a class still lists the id.
C26_Witness ==
  /\ last.op = "delete_professor" /\ last.ret = SUCCESS
  /\ \E c \in Classes : Contains(c.professors_ids, last.key)

(***************************************************************************)
(* C27.  Every successful create_professor assigns id = 1 + the largest id *)
(* among the professor records existing at that moment (1 when there are   *)
(* none), and a create_professor that fails validation adds no record.     *)
(***************************************************************************)
C27_ProfessorIdIsOnePlusLargest ==
  [][last'.op = "create_professor"
       => /\ last'.ret = SUCCESS
               => /\ Len(database'.professors) = Len(database.professors) + 1
                  /\ SubSeq(database'.professors, 1, Len(database.professors))
                       = database.professors
                  /\ database'.professors[Len(database'.professors)].id
                       = 1 + LargestProfessorId(database)
          /\ validate_professor(last'.data) # SUCCESS
               => (last'.ret = ERROR /\ database' = database)]_vars

\* An id was issued above the number of professors: one was deleted before.
C27_Witness ==
  /\ last.op = "create_professor" /\ last.ret = SUCCESS
  /\ database.professors[Len(database.professors)].id > Len(database.professors)

RetrieveOps ==
  {"retrieve_subject", "retrieve_professor", "retrieve_student", "retrieve_class",
   "retrieve_review"}

RetrieveTargetExists(db, op, pk) ==
  CASE op = "retrieve_subject" -> \E i \in DOMAIN db.subjects : db.subjects[i].code = pk
    [] op = "retrieve_professor" -> \E i \in DOMAIN db.professors : db.professors[i].id = pk
    [] op = "retrieve_student" -> \E i \in DOMAIN db.students : db.students[i].enrollment = pk
    [] op = "retrieve_class" -> \E i \in DOMAIN db.classes : db.classes[i].code = pk
    [] op = "retrieve_review" -> \E i \in DOMAIN db.reviews : db.reviews[i].id_aval = pk

\* C28: each retrieve_* called with a non-positive key, or with a positive key
\* that no record of its collection carries, returns None (no position) and
\* leaves the store as it was.
C28_RetrieveOfNothingIsNone ==
  [][(/\ last'.op \in RetrieveOps
      /\ (last'.key <= 0 \/ ~RetrieveTargetExists(database, last'.op, last'.key)))
       => (last'.ret = 0 /\ database' = database)]_vars

\* A lookup of an absent positive key in a collection that holds a record.
C28_Witness ==
  /\ last.op = "retrieve_subject" /\ last.key = 1302 /\ last.ret = 0
  /\ database.subjects # <<>>

\* The stored students with the enrollment whose password is the one given.
AccountsMatching(db, enrollment, password) ==
  {i \in DOMAIN db.students : /\ db.students[i].enrollment = enrollment
                               /\ db.students[i].password = password}

\* C29: authenticate_user returns the stored student record (its position)
\* exactly when a student with the enrollment exists and its stored password
\* equals the one given, returns ERROR (no position) otherwise, and never
\* changes the store.
C29_LoginIffPasswordMatches ==
  [][last'.op = "authenticate_user"
       => /\ database' = database
          /\ LET m == AccountsMatching(database, last'.key, last'.data)
             IN  IF m = {} THEN last'.ret = 0
                 ELSE last'.ret \in m]_vars

\* A login refused for the old password after the password was changed.
C29_Witness ==
  /\ last.op = "authenticate_user" /\ last.ret = 0
  /\ last.data = <<"p">>
  /\ \E i \in DOMAIN database.students :
        /\ database.students[i].enrollment = last.key
        /\ database.students[i].password = <<"q">>

\* The review stored under id r.
ReviewStored(db, r) == \E rv \in Range(db.reviews) : rv.id_aval = r

\* C30: create_review has no rollback: when validation succeeds it returns
\* SUCCESS, the stored reviews are the earlier ones followed by the new one,
\* and the author's link, the class's link and the link of every listed
\* professor that has a record are there afterwards, also when a professor
\* listed by the target class has no record and that link is not written.
C30_CreateReviewKeepsWhatItWrote ==
  [][(last'.op = "create_review" /\ validate_review(database, last'.data) = SUCCESS)
       => /\ last'.ret = SUCCESS
          /\ Len(database'.reviews) = Len(database.reviews) + 1
          /\ SubSeq(database'.reviews, 1, Len(database.reviews)) = database.reviews
          /\ ReviewStored(database', last'.key)
          /\ InStudentReviews(database', last'.data.student_enrollment, last'.key)
          /\ LET c == last'.data.class_target_code
             IN  (c # None /\ ClassesWithCode(database, c) # {})
                   => /\ InClassReviews(database', c, last'.key)
                      /\ \A q \in ProfessorsListedBy(database, c) :
                           ProfessorExists(database, q)
                             => InProfessorReviews(database', q, last'.key)]_vars

\* A review created about a class that lists a professor with no record and a
\* professor with one: the review, the class link and the other link stand.
C30_Witness ==
  /\ ClassTargetedReviewCreated
  /\ ReviewStored(database, last.key)
  /\ InClassReviews(database, last.data.class_target_code, last.key)
  /\ \E q \in ProfessorsListedBy(database, last.data.class_target_code) :
       ~ProfessorExists(database, q)
  /\ \E q \in ProfessorsListedBy(database, last.data.class_target_code) :
       InProfessorReviews(database, q, last.key)

\* C31: with counters that start at 1, the k-th successful create_class gets
\* code k and the k-th successful create_review gets id_aval k: a successful
\* creation appends a record carrying the counter's value and advances the
\* counter by one, a refused creation and every other operation leave the
\* counter alone, and every stored code or id is below its counter, so no
\* deletion makes an issued value come back.
C31_IdsAreIssuedInSequence ==
  [][/\ \A i \in DOMAIN database.classes : database.classes[i].code < next_class_id
     /\ \A i \in DOMAIN database.reviews : database.reviews[i].id_aval < next_review_id
     /\ IF last'.op = "create_class" /\ last'.ret = SUCCESS
        THEN /\ last'.key = next_class_id
             /\ database'.classes[Len(database'.classes)].code = next_class_id
             /\ next_class_id' = next_class_id + 1
        ELSE next_class_id' = next_class_id
     /\ IF last'.op = "create_review" /\ last'.ret = SUCCESS
        THEN /\ last'.key = next_review_id
             /\ database'.reviews[Len(database'.reviews)].id_aval = next_review_id
             /\ next_review_id' = next_review_id + 1
        ELSE next_review_id' = next_review_id]_vars

\* The second class created after the first was deleted, once two reviews
\* had been issued ids and deleted again.
C31_Witness ==
  /\ last.op = "create_class" /\ last.ret = SUCCESS /\ last.key = 2
  /\ Len(database.classes) = 1 /\ database.classes[1].code = 2
  /\ next_review_id = 3 /\ database.reviews = <<>>

ProfessorIdsUnique(db) ==
  \A i, j \in DOMAIN db.professors :
    db.professors[i].id = db.professors[j].id => i = j

\* C32: as long as create_professor calls run one at a time no two professor
\* records share an id; a call that computes its id while another call holds
\* an id computed from the same records gets the same id; and a call appends
\* its record under the id it holds, so when a record with that id was
\* appended meanwhile two records share the id.
C32_ProfessorIdsUniqueUnlessInterleaved ==
  [][/\ ~in_flight'.interleaved => ProfessorIdsUnique(database')
     /\ \A t, u \in Threads :
          (/\ t # u
           /\ in_flight.calls[t].pc = "generated" /\ ~in_flight.calls[t].stale
           /\ in_flight.calls[u].pc = "idle" /\ in_flight'.calls[u].pc = "generated")
            => in_flight'.calls[u].new_id = in_flight.calls[t].new_id
     /\ \A t \in Threads :
          (in_flight.calls[t].pc = "generated" /\ in_flight'.calls[t].pc = "idle")
            => /\ Len(database'.professors) = Len(database.professors) + 1
               /\ database'.professors[Len(database'.professors)].id
                    = in_flight.calls[t].new_id
               /\ (\E i \in DOMAIN database.professors :
                      database.professors[i].id = in_flight.calls[t].new_id)
                    => ~ProfessorIdsUnique(database')]_vars

\* Two records with one id, left by two calls that both computed the id
\* before either appended.
C32_Witness ==
  /\ Len(database.professors) = 2
  /\ database.professors[1].id = database.professors[2].id
  /\ database.professors[1].department # database.professors[2].department
  /\ in_flight.interleaved

\* The ids that some class lists in professors_ids: each was issued to a
\* professor when the class was created or updated.
ProfessorIdsListed(db) == UNION {Range(cl.professors_ids) : cl \in Range(db.classes)}

\* C33: a professor id is never issued twice: the id given by a successful
\* create_professor is not the id of a professor deleted earlier, so no class
\* lists it already and no class becomes attached to the new professor.
C33_ProfessorIdNeverReassigned ==
  [][(last'.op = "create_professor" /\ last'.ret = SUCCESS)
       => last'.key \notin ProfessorIdsListed(database)]_vars

\* Forward and backward references agree: a stored review names student e
\* exactly when e's list holds it, and class c exactly when c's list holds it.
ReferencesAgree(db) ==
  \A rv \in Range(db.reviews) :
    /\ \A st \in Range(db.students) :
         (rv.student_enrollment = st.enrollment) <=> Contains(st.reviews, rv.id_aval)
    /\ \A cl \in Range(db.classes) :
         (rv.class_target_code = cl.code) <=> Contains(cl.reviews_ids, rv.id_aval)

\* C34: create_review, update_review and delete_review keep forward and
\* backward references in agreement: run in a store where they agree, each
\* leaves a store where they agree.
C34_ReviewReferencesAgree ==
  [][(/\ last'.op \in {"create_review", "update_review", "delete_review"}
      /\ ReferencesAgree(database))
       => ReferencesAgree(database')]_vars

\* The partial replaces professors_ids with a non-empty list of ids that all
\* have a record in db.
ReplacesWithResolving(db, new_data) ==
  /\ "professors_ids" \in DOMAIN new_data
  /\ new_data.professors_ids # <<>>
  /\ \A q \in Range(new_data.professors_ids) : ProfessorExists(db, q)

\* delete_professor(q) ran after some class came to list q: q has no record
\* now, or the call before this one created a record under q while a class
\* listed q already.
DeletedWhileListed(q) ==
  \/ ~ProfessorExists(database, q)
  \/ last.op = "create_professor" /\ last.ret = SUCCESS /\ last.key = q

\* C35: an update_class on a class that still lists a professor deleted
\* earlier returns ERROR and changes nothing, unless the partial replaces
\* professors_ids with a non-empty list of ids that all resolve.
C35_UpdateOfClassListingDeletedProfessor ==
  [][(/\ last'.op = "update_class"
      /\ \E q \in ProfessorsListedBy(database, last'.key) : DeletedWhileListed(q)
      /\ ~ReplacesWithResolving(database, last'.data))
       => (last'.ret = ERROR /\ database' = database)]_vars

\* C36: a create_review that returns SUCCESS, followed at once by the
\* delete_review of the id it assigned, leaves the five collections as they
\* were before the create; the delete returns SUCCESS and the id counter has
\* advanced.
C36_CreateThenDeleteReviewRestores ==
  \A data \in FanOutReviewInputs \cup CascadeReviewInputs \cup SessionReviewInputs :
    LET created == create_review(database, next_review_id, data, Now)
        deleted == delete_review(created.db, next_review_id)
    IN  created.ret = SUCCESS
          => /\ deleted.ret = SUCCESS
             /\ deleted.db = database
             /\ created.next = next_review_id + 1

====
